---- MODULE Spec2Model ----
(***************************************************************************)
(* Occurrence matching of app/api/search/route.js: the GET handler, its    *)
(* mode selection, the overlap builder buildOccurrencesByRadiusAndDays,    *)
(* the single-pick location-run builder and the no-overlap fallback.       *)
(*                                                                         *)
(* Representation.                                                         *)
(*  - A local date string "YYYY-MM-DD" is the tuple <<y, m, d>> of its      *)
(*    three numeric fields, an absent date ("") is <<>>, and a date string  *)
(*    with fewer than three fields ("2024-06") is <<y, m>>.                *)
(*  - A latitude / longitude is an integer number of 1e-4 degrees; a       *)
(*    missing or non-finite coordinate is NullCoord.                       *)
(*  - Distances are integers in thousandths of a mile.                     *)
(*  - A raw pick parameter is the sequence of its colon-separated parts;   *)
(*    the blank parameter is <<>>.                                         *)
(***************************************************************************)
EXTENDS Integers, Sequences, FiniteSets, TLC

VARIABLES
  provider,   \* the ticket provider: the events it can return for a query
              \* (catalogue) and how many it returns to one request (limit)
  req,        \* the query parameters of the request being served
  pc,         \* "received" until the handler has answered, then "done"
  picks,      \* the parsed picks p1, p2, p3 after ensureAttractionId
  branch,     \* the branch GET took: "none", "single" or "normal"
  tmEvents,   \* the provider's answers to the handler's event queries, in the
              \* order of the queries
  allEvents,  \* allEvents of GET: ticket-linked events tagged with __pick
  built,      \* the overlap builder's accepted clusters, each with its seed
  resp,       \* the JSON payload the handler returned
  cache,      \* options route: globalThis.__EVENTSTACK_OPTIONS_CACHE__
  clock,      \* options route: Date.now(), in ticks
  builds,     \* options route: the executions of buildCombinedOptions so far
  gets,       \* options route: the GET requests received so far
  pageCopy,   \* results page: which ResultsPage of app/results/page.tsx runs
              \* (1: line 642, 2: line 2016)
  qsString,   \* results page: the query string of the last render
  requests,   \* results page: the /api/search requests of the search effect
  data,       \* results page: the `data` state
  loading,    \* results page: the `loading` state
  popularCacheByOcc,  \* results page: the cache entry of every occurrence key
  showPopularByOcc,   \* results page: the toggle of every occurrence key
  rendered,           \* results page: popularCacheByOcc as the handlers of the
                      \* last committed render see it
  nearbyRequests      \* results page: the /api/nearby requests issued

searchVars == <<provider, req, pc, picks, branch, tmEvents, allEvents, built, resp>>

optionsVars == <<cache, clock, builds, gets>>

pageVars == <<pageCopy, qsString, requests, data, loading>>

nearbyVars == <<popularCacheByOcc, showPopularByOcc, rendered, nearbyRequests>>

vars == <<searchVars, optionsVars, pageVars, nearbyVars>>

(***************************************************************************)
(* Bounds of the model.                                                    *)
(***************************************************************************)
MaxEvents == 3   \* events the provider returns to one request, overlap specification
MaxFetched == 2  \* events the provider returns to one request, handler specification
MaxRanked == 4   \* events the provider returns to one request, ranking specification
MaxSingle == 3   \* events the provider returns to one request, single-pick specification
MaxSchedule == 3 \* events the provider returns to one request, fallback specification
MaxLinked == 4   \* events the provider returns to one request, ticket-link specification
MaxCopies == 3   \* events the provider returns to one request, duplicate specification
MaxTied == 4     \* events the provider returns to one request, closest-pair specification
MaxDays == 3     \* largest value of the `days` query parameter
MaxGets == 3     \* GET requests the options route receives
MaxClock == 3    \* last tick of the options route's clock
TtlTicks == 2    \* OPTIONS_TTL_SECONDS * 1000 ms, in ticks of the clock
MaxRequests == 3 \* /api/search requests the results page issues
MaxNearby == 3   \* /api/nearby requests the results page issues

(***************************************************************************)
(* Null values.                                                            *)
(***************************************************************************)
NullCoord == 9999999    \* lat / lon `null`
NullDays == 0 - 999999  \* `null` returned by diffDaysSigned / diffDaysAbs

NullPick == [type |-> "", league |-> "", attractionId |-> "", name |-> "",
             bucket |-> "", slot |-> ""]

(***************************************************************************)
(* Venues and events of the provider.                                      *)
(***************************************************************************)
Venue(id, name, city, lat, lon) ==
  [id |-> id, name |-> name, city |-> city, state |-> "ON",
   latitude |-> lat, longitude |-> lon]

Toronto  == Venue("V1", "Scotiabank Arena", "Toronto", 436435, 0 - 793791)
Hamilton == Venue("V2", "FirstOntario Centre", "Hamilton", 432590, 0 - 798711)
\* a venue the provider lists without an id and without a location
NoGeo    == Venue("", "Fairgrounds", "Guelph", NullCoord, NullCoord)

D0 == <<2024, 5, 31>>
D1 == <<2024, 6, 1>>
D2 == <<2024, 6, 2>>
NoDate == <<>>

Event(id, name, date, time, venue, url) ==
  [id |-> id, name |-> name, localDate |-> date, localTime |-> time,
   venue |-> venue, url |-> url, genre |-> "rock", pick |-> NullPick]

TicketUrl == "https://tm.example/e"

\* The provider's events that the overlap specification draws from: placed
\* and dated events of two venues 36 miles apart over three days, one at a venue
\* without a location, one without a date and one without a provider id.
GeoCatalogue ==
  {Event("E01", "Game", D0, "19:00:00", Toronto, TicketUrl),
   Event("E02", "Game", D1, "19:00:00", Toronto, TicketUrl),
   Event("E03", "Game", D2, "19:00:00", Toronto, TicketUrl),
   Event("E05", "Game", D1, "19:00:00", Hamilton, TicketUrl),
   Event("E10", "Game", D0, "19:00:00", NoGeo, TicketUrl),
   Event("E11", "Game", NoDate, "", Toronto, TicketUrl),
   Event("", "Show", D1, "20:00:00", Toronto, TicketUrl)}

\* The provider's events that the ranking specification draws from: one venue,
\* three days, two events on the middle day.
RankCatalogue ==
  {Event("E01", "Game", D0, "19:00:00", Toronto, TicketUrl),
   Event("E02", "Game", D1, "19:00:00", Toronto, TicketUrl),
   Event("E04", "Game", D1, "19:00:00", Toronto, TicketUrl),
   Event("E03", "Game", D2, "19:00:00", Toronto, TicketUrl)}

\* The provider's events that the single-pick specification draws from: two
\* venues, a timed and an untimed event on one date, an undated event and an
\* event without a ticket link.
SingleCatalogue ==
  {Event("E01", "Game", D0, "19:00:00", Toronto, TicketUrl),
   Event("E06", "Game", D0, "", Toronto, TicketUrl),
   Event("E02", "Game", D1, "19:00:00", Toronto, TicketUrl),
   Event("E05", "Game", D1, "19:00:00", Hamilton, TicketUrl),
   Event("E11", "Game", NoDate, "", Toronto, TicketUrl),
   Event("E12", "Game", D1, "19:00:00", Toronto, "")}

\* The provider's events that the fallback specification draws from: two
\* venues, a venue without a location, an undated event, an event whose ticket
\* link is blank and an event without a provider id.
BlankUrl == " "

FallbackCatalogue ==
  {Event("E01", "Game", D0, "19:00:00", Toronto, TicketUrl),
   Event("E02", "Game", D1, "19:00:00", Toronto, TicketUrl),
   Event("E08", "Game", D1, "20:00:00", Hamilton, TicketUrl),
   Event("E10", "Game", D0, "19:00:00", NoGeo, TicketUrl),
   Event("E11", "Game", NoDate, "", Toronto, TicketUrl),
   Event("E12", "Game", D1, "19:00:00", Toronto, BlankUrl),
   Event("", "Show", D1, "20:00:00", Toronto, TicketUrl)}

\* The provider's events that the ticket-link specification draws from: two
\* events with a ticket link, one without a url and one whose url is blank.
TicketCatalogue ==
  {Event("E01", "Game", D0, "19:00:00", Toronto, TicketUrl),
   Event("E02", "Game", D1, "19:00:00", Toronto, TicketUrl),
   Event("E12", "Game", D1, "19:00:00", Toronto, ""),
   Event("E09", "Game", D0, "19:00:00", Hamilton, BlankUrl)}

\* The provider's events that the duplicate specification draws from: two
\* listings without a provider id that differ in the spelling of the name only,
\* and two events with ids.
CopyCatalogue ==
  {Event("", "Show", D1, "20:00:00", Toronto, TicketUrl),
   Event("", "SHOW", D1, "20:00:00", Toronto, TicketUrl),
   Event("E01", "Game", D0, "19:00:00", Toronto, TicketUrl),
   Event("E02", "Game", D1, "19:00:00", Toronto, TicketUrl)}

\* The provider's events that the closest-pair specification draws from: two
\* venues 36 miles apart, an event at each on each of two days.
TieCatalogue ==
  {Event("E01", "Game", D0, "19:00:00", Toronto, TicketUrl),
   Event("E02", "Game", D1, "19:00:00", Toronto, TicketUrl),
   Event("E07", "Game", D0, "19:00:00", Hamilton, TicketUrl),
   Event("E05", "Game", D1, "19:00:00", Hamilton, TicketUrl)}

\* The provider's events that the handler specification draws from.
SmallCatalogue ==
  {Event("E01", "Game", D0, "19:00:00", Toronto, TicketUrl),
   Event("E05", "Game", D1, "19:00:00", Hamilton, TicketUrl),
   Event("E10", "Game", D0, "19:00:00", NoGeo, TicketUrl),
   Event("E11", "Game", NoDate, "", Toronto, TicketUrl),
   Event("E12", "Game", D1, "19:00:00", Toronto, "")}

Radii == {10, 50}

\* raw pick parameters
Blank       == <<>>
TeamByName  == <<"team", "NHL", "Oilers">>
TeamLegacy  == <<"team", "NHL", "K1", "Oilers">>
ArtistK2    == <<"artist", "K2">>
ArtistK3    == <<"artist", "K3">>
GenreRock   == <<"genre", "Rock", "Rock">>
Keyword     == <<"jazz fest">>
Malformed   == <<"team", "NHL">>

RawPicks == {Blank, TeamByName, TeamLegacy, ArtistK2, GenreRock, Keyword, Malformed}

(***************************************************************************)
(* Date helpers.                                                           *)
(***************************************************************************)
\* isYMD: the string has the shape dddd-dd-dd
isYMD(s) == Len(s) = 3

\* Date.UTC(y, m - 1, d) in whole days since 1970-01-01 (proleptic Gregorian)
DaysFromCivil(y, m, d) ==
  LET yy  == IF m <= 2 THEN y - 1 ELSE y
      era == yy \div 400
      yoe == yy - era * 400
      mp  == (m + 9) % 12
      doy == (153 * mp + 2) \div 5 + d - 1
      doe == yoe * 365 + yoe \div 4 - yoe \div 100 + doy
  IN  era * 146097 + doe - 719468

\* parseLocalDateToUTC: null unless the string splits into three numbers
parseLocalDateToUTC(localDate) ==
  IF Len(localDate) # 3 THEN NullDays
  ELSE DaysFromCivil(localDate[1], localDate[2], localDate[3])

\* diffDaysSigned: b - a in days; the quotient of two UTC midnights is whole,
\* so Math.round leaves it as it is
diffDaysSigned(aLocalDate, bLocalDate) ==
  LET a == parseLocalDateToUTC(aLocalDate)
      b == parseLocalDateToUTC(bLocalDate)
  IN  IF a = NullDays \/ b = NullDays THEN NullDays ELSE b - a

diffDaysAbs(aLocalDate, bLocalDate) ==
  LET d == diffDaysSigned(aLocalDate, bLocalDate)
  IN  IF d = NullDays THEN NullDays ELSE IF d < 0 THEN 0 - d ELSE d

\* a < b for two date strings compared by code units (Array.prototype.sort,
\* `<` and localeCompare agree on digits and "-"); a proper prefix is smaller
RECURSIVE DateLess(_, _)
DateLess(a, b) ==
  IF b = <<>> THEN FALSE
  ELSE IF a = <<>> THEN TRUE
  ELSE IF Head(a) # Head(b) THEN Head(a) < Head(b)
  ELSE DateLess(Tail(a), Tail(b))

\* localeCompare of two date strings: negative, zero or positive
DateCompare(a, b) == IF DateLess(a, b) THEN 0 - 1 ELSE IF DateLess(b, a) THEN 1 ELSE 0

Pad2(n) == IF n < 10 THEN "0" \o ToString(n) ELSE ToString(n)

\* the text of a local date
DateStr(d) ==
  IF d = <<>> THEN ""
  ELSE IF Len(d) = 2 THEN ToString(d[1]) \o "-" \o Pad2(d[2])
  ELSE ToString(d[1]) \o "-" \o Pad2(d[2]) \o "-" \o Pad2(d[3])

(***************************************************************************)
(* Distance.                                                               *)
(***************************************************************************)
\* haversineMiles with R = 3958.7613, in thousandths of a mile, tabulated for
\* the coordinates of the model's venues (rounded to the nearest thousandth)
haversineMiles(lat1, lon1, lat2, lon2) ==
  LET T == <<436435, 0 - 793791>>
      H == <<432590, 0 - 798711>>
      a == <<lat1, lon1>>
      b == <<lat2, lon2>>
  IN  CASE a = b -> 0
        [] {a, b} = {T, H} -> 36260

(***************************************************************************)
(* Sequence helpers standing for Array.prototype.filter / map / sort.      *)
(***************************************************************************)
RECURSIVE SeqOfSetByDate(_)
SeqOfSetByDate(S) ==
  IF S = {} THEN <<>>
  ELSE LET m == CHOOSE x \in S : \A y \in S \ {x} : DateLess(x, y)
       IN  <<m>> \o SeqOfSetByDate(S \ {m})

Range(s) == {s[i] : i \in 1..Len(s)}

\* uniqueSortedDates: the distinct non-empty local dates, ascending
uniqueSortedDates(events) ==
  SeqOfSetByDate({events[i].localDate : i \in 1..Len(events)} \ {<<>>})

\* hasTicketLink
\* String.prototype.trim on the urls of the model
trim(s) == IF s = " " THEN "" ELSE s

hasTicketLink(e) == trim(e.url) # ""

\* getEventGeo / the coordinate part of eventMetaForOccurrenceKey: both
\* coordinates or none
hasCoords(e) == e.venue.latitude # NullCoord /\ e.venue.longitude # NullCoord

eventMetaForOccurrenceKey(e) ==
  [date |-> e.localDate,
   lat |-> IF hasCoords(e) THEN e.venue.latitude ELSE NullCoord,
   lon |-> IF hasCoords(e) THEN e.venue.longitude ELSE NullCoord]

\* getAnchorLatLon: the coordinates of the first event that has both
RECURSIVE getAnchorLatLon(_)
getAnchorLatLon(occ) ==
  IF occ = <<>> THEN [lat |-> NullCoord, lon |-> NullCoord]
  ELSE IF hasCoords(Head(occ))
       THEN [lat |-> Head(occ).venue.latitude, lon |-> Head(occ).venue.longitude]
       ELSE getAnchorLatLon(Tail(occ))

(***************************************************************************)
(* Pick and event identity.                                                *)
(***************************************************************************)
\* String.prototype.toLowerCase on the strings of the model
toLowerCase(s) ==
  CASE s = "Game" -> "game"
    [] s = "Show" -> "show"
    [] s = "SHOW" -> "show"
    [] s = "Scotiabank Arena" -> "scotiabank arena"
    [] s = "FirstOntario Centre" -> "firstontario centre"
    [] s = "Fairgrounds" -> "fairgrounds"
    [] s = "Toronto" -> "toronto"
    [] s = "Hamilton" -> "hamilton"
    [] s = "Guelph" -> "guelph"
    [] s = "ON" -> "on"
    [] OTHER -> s

\* a || b for strings
OrElse(a, b) == IF a # "" THEN a ELSE b

pickKey(p) ==
  IF p = NullPick THEN ""
  ELSE LET slot == IF p.slot # "" THEN "|slot:" \o p.slot ELSE ""
       IN  CASE p.type = "team" ->
                  "team:" \o p.league \o ":" \o OrElse(p.attractionId, p.name) \o slot
             [] p.type = "artist" ->
                  "artist:" \o OrElse(p.attractionId, p.name) \o slot
             [] p.type = "genre" ->
                  "genre:" \o p.bucket \o ":" \o p.name \o slot
             [] OTHER -> "raw:" \o p.name \o slot

\* the event identity without the slot of the pick
dedupeKeyWithoutSlot(e) ==
  IF e.id # "" THEN "id:" \o e.id
  ELSE "cmp:" \o toLowerCase(e.name) \o "|" \o DateStr(e.localDate) \o "|" \o e.localTime
         \o "|" \o (IF e.venue.id # "" THEN "vid:" \o e.venue.id
                    ELSE "v:" \o toLowerCase(e.venue.name) \o "|c:"
                           \o toLowerCase(e.venue.city))

dedupeKeyForEvent(e) ==
  LET slot == e.pick.slot
  IN  IF e.id # ""
      THEN (IF slot # "" THEN "id:" \o e.id \o "|slot:" \o slot ELSE "id:" \o e.id)
      ELSE LET name      == toLowerCase(e.name)
               localDate == DateStr(e.localDate)
               localTime == e.localTime
               venueId   == e.venue.id
               venueName == toLowerCase(e.venue.name)
               city      == toLowerCase(e.venue.city)
               place     == IF venueId # "" THEN "vid:" \o venueId
                            ELSE "v:" \o venueName \o "|c:" \o city
               base      == "cmp:" \o name \o "|" \o localDate \o "|" \o localTime
                              \o "|" \o place
           IN  IF slot # "" THEN base \o "|slot:" \o slot ELSE base

\* The strings that occur inside dedupe keys, in ascending code-unit order.
StringsAscending ==
  <<"", "00:00:00", "19:00:00", "20:00:00", "E01", "E02", "E03", "E04", "E05", "E06", "E07",
    "E08", "E09", "E10", "E11", "E12", "V1", "V2",
    "fairgrounds", "game", "guelph", "p1", "p2", "p3", "show">>

StrRank(s) == CHOOSE i \in 1..Len(StringsAscending) : StringsAscending[i] = s

\* The fields dedupeKeyForEvent concatenates, as ranks: two keys compare as their
\* rank tuples do (the model's ids all have one length, so no key is a prefix
\* of another key).
KeyOrd(e) ==
  IF e.id # ""
  THEN <<1, StrRank(e.id), StrRank(e.pick.slot)>>
  ELSE <<0, StrRank(toLowerCase(e.name)), parseLocalDateToUTC(e.localDate),
         StrRank(e.localTime)>>
       \o (IF e.venue.id # "" THEN <<1, StrRank(e.venue.id), 0>>
           ELSE <<0, StrRank(toLowerCase(e.venue.name)), StrRank(toLowerCase(e.venue.city))>>)
       \o <<StrRank(e.pick.slot)>>

RECURSIVE LexLess(_, _)
LexLess(a, b) ==
  IF b = <<>> THEN FALSE
  ELSE IF a = <<>> THEN TRUE
  ELSE IF Head(a) # Head(b) THEN Head(a) < Head(b)
  ELSE LexLess(Tail(a), Tail(b))

(***************************************************************************)
(* Map: insertion-ordered entries; set() on a present key replaces the     *)
(* value where the key already stands.                                     *)
(***************************************************************************)
MapHas(m, k) == \E i \in 1..Len(m) : m[i].key = k

MapSet(m, k, v) ==
  IF MapHas(m, k)
  THEN [i \in 1..Len(m) |-> IF m[i].key = k THEN [key |-> k, val |-> v] ELSE m[i]]
  ELSE Append(m, [key |-> k, val |-> v])

MapValues(m) == [i \in 1..Len(m) |-> m[i].val]

\* Array.from(map.keys()).sort().join("|")
RECURSIVE JoinSortedKeys(_)
JoinSortedKeys(entries) ==
  IF entries = {} THEN ""
  ELSE LET m == CHOOSE x \in entries :
                  \A y \in entries \ {x} : LexLess(KeyOrd(x.val), KeyOrd(y.val))
           rest == JoinSortedKeys(entries \ {m})
       IN  IF rest = "" THEN m.key ELSE m.key \o "|" \o rest

(***************************************************************************)
(* Normal-mode occurrence builder.                                         *)
(***************************************************************************)
Max(a, b) == IF a >= b THEN a ELSE b

occurrenceEarliestDate(events) ==
  LET dates == uniqueSortedDates(events)
  IN  IF dates = <<>> THEN <<9999, 12, 31>> ELSE dates[1]

occurrencePickCoverageCount(events) ==
  Cardinality({pickKey(events[i].pick) : i \in 1..Len(events)})

occurrenceDistinctDateCount(events) == Len(uniqueSortedDates(events))

occurrenceSpanDays(events) ==
  LET dates == uniqueSortedDates(events)
  IN  IF dates = <<>> THEN 0
      ELSE LET d == diffDaysAbs(dates[1], dates[Len(dates)])
           IN  IF d = NullDays THEN 0 ELSE d

\* metas of buildOccurrencesByRadiusAndDays
Metas(events) ==
  [i \in 1..Len(events) |->
     [e |-> events[i], key |-> dedupeKeyForEvent(events[i]),
      meta |-> eventMetaForOccurrenceKey(events[i])]]

\* an event with a date and both coordinates
Placed(m) == m.meta.date # <<>> /\ m.meta.lat # NullCoord /\ m.meta.lon # NullCoord

\* the tests of the inner loop without the distance test
JoinsAnyDistance(a, b, maxMiles, maxDiffDays) ==
  /\ Placed(b)
  /\ diffDaysSigned(a.meta.date, b.meta.date) \in 0..maxDiffDays

\* the tests of the inner loop where an event without a date or a location
\* skips the distance test instead of the loop body
JoinsUnplaced(a, b, maxMiles, maxDiffDays) ==
  /\ diffDaysSigned(a.meta.date, b.meta.date) \in 0..maxDiffDays
  /\ Placed(b) =>
       haversineMiles(a.meta.lat, a.meta.lon, b.meta.lat, b.meta.lon) <= maxMiles * 1000

\* the tests of the inner loop with the day test on the unsigned difference:
\* b lies up to maxDiffDays days before or after a
JoinsEitherSide(a, b, maxMiles, maxDiffDays) ==
  /\ Placed(b)
  /\ diffDaysAbs(a.meta.date, b.meta.date) \in 0..maxDiffDays
  /\ haversineMiles(a.meta.lat, a.meta.lon, b.meta.lat, b.meta.lon)
       <= maxMiles * 1000

\* the tests of the inner loop on b for the seed a: b is placed, lies 0 to
\* maxDiffDays days after a, and within maxMiles of a
Joins(a, b, maxMiles, maxDiffDays) ==
  LET dSigned == diffDaysSigned(a.meta.date, b.meta.date)
  IN  /\ Placed(b)
      /\ dSigned # NullDays /\ dSigned >= 0 /\ dSigned <= maxDiffDays
      /\ haversineMiles(a.meta.lat, a.meta.lon, b.meta.lat, b.meta.lon)
           <= maxMiles * 1000

\* the inner loop over j, from j on, for the seed metas[i]
RECURSIVE InnerLoop(_, _, _, _, _, _)
InnerLoop(metas, i, j, maxMiles, maxDiffDays, occEvents) ==
  IF j > Len(metas) THEN occEvents
  ELSE InnerLoop(metas, i, j + 1, maxMiles, maxDiffDays,
                 IF i # j /\ Joins(metas[i], metas[j], maxMiles, maxDiffDays)
                 THEN MapSet(occEvents, metas[j].key, metas[j].e)
                 ELSE occEvents)

\* the coverage test passed by a cluster of one pick
CoversOnePick(occList) ==
  Cardinality({pickKey(occList[k].pick) : k \in 1..Len(occList)}) >= 1

\* picksSet.size >= 2: overlaps only
CoversTwoPicks(occList) ==
  Cardinality({pickKey(occList[k].pick) : k \in 1..Len(occList)}) >= 2

\* the distinct-date cap and the hard span cap
WithinCaps(occList, safeSpanDays, maxDiffDays) ==
  /\ occurrenceDistinctDateCount(occList) <= safeSpanDays
  /\ occurrenceSpanDays(occList) <= maxDiffDays

\* the member keys joined in insertion order, unsorted
RECURSIVE OccKeyUnsorted(_)
OccKeyUnsorted(occEvents) ==
  IF occEvents = <<>> THEN ""
  ELSE IF Len(occEvents) = 1 THEN occEvents[1].key
  ELSE occEvents[1].key \o "|" \o OccKeyUnsorted(Tail(occEvents))

\* occKey: the member keys, sorted and joined
OccKey(occEvents) == JoinSortedKeys(Range(occEvents))

\* what the outer loop does with the cluster grown from the seed metas[i]
Accept(occurrencesMap, i, occEvents, safeSpanDays, maxDiffDays) ==
  IF /\ CoversTwoPicks(MapValues(occEvents))
     /\ WithinCaps(MapValues(occEvents), safeSpanDays, maxDiffDays)
     /\ ~MapHas(occurrencesMap, OccKey(occEvents))
  THEN Append(occurrencesMap,
              [key |-> OccKey(occEvents), val |-> MapValues(occEvents), seed |-> i])
  ELSE occurrencesMap

\* the outer loop over the seeds, from i on; occurrencesMap holds, for each
\* occurrence key, the member list and (for reference only) the seed index
RECURSIVE OuterLoop(_, _, _, _, _)
OuterLoop(metas, i, maxMiles, safeSpanDays, occurrencesMap) ==
  IF i > Len(metas) THEN occurrencesMap
  ELSE OuterLoop(metas, i + 1, maxMiles, safeSpanDays,
                 IF ~Placed(metas[i]) THEN occurrencesMap
                 ELSE Accept(occurrencesMap, i,
                             InnerLoop(metas, i, 1, maxMiles, Max(0, safeSpanDays - 1),
                                       <<[key |-> metas[i].key, val |-> metas[i].e]>>),
                             safeSpanDays, Max(0, safeSpanDays - 1)))

\* a comparator that ranks by member count and date only
RankCompareBySize(A, B) ==
  IF Len(A) # Len(B) THEN Len(B) - Len(A)
  ELSE DateCompare(occurrenceEarliestDate(A), occurrenceEarliestDate(B))

\* the comparator of occurrences.sort
RankCompare(A, B) ==
  LET aCoverage == occurrencePickCoverageCount(A)
      bCoverage == occurrencePickCoverageCount(B)
  IN  IF aCoverage # bCoverage THEN bCoverage - aCoverage
      ELSE IF Len(A) # Len(B) THEN Len(B) - Len(A)
      ELSE DateCompare(occurrenceEarliestDate(A), occurrenceEarliestDate(B))

\* Array.prototype.sort is stable: x goes behind every element that does not
\* compare greater than it
RECURSIVE InsertRanked(_, _)
InsertRanked(sorted, x) ==
  IF sorted = <<>> THEN <<x>>
  ELSE IF RankCompare(Head(sorted).val, x.val) <= 0
       THEN <<Head(sorted)>> \o InsertRanked(Tail(sorted), x)
       ELSE <<x>> \o sorted

RECURSIVE SortRanked(_)
SortRanked(occs) ==
  IF occs = <<>> THEN <<>>
  ELSE InsertRanked(SortRanked(SubSeq(occs, 1, Len(occs) - 1)), occs[Len(occs)])

\* The accepted clusters in the order returned; .val is the member list that
\* the function returns, .seed the index in allEvents of the seed it grew from.
buildOccurrencesByRadiusAndDays(events, maxMiles, effectiveDays) ==
  LET safeSpanDays == Max(1, effectiveDays)
  IN  SortRanked(OuterLoop(Metas(events), 1, maxMiles, safeSpanDays, <<>>))

(***************************************************************************)
(* Single-mode occurrence builder.                                         *)
(***************************************************************************)
RECURSIVE JoinWith(_, _)
JoinWith(parts, sep) ==
  IF parts = <<>> THEN ""
  ELSE IF Len(parts) = 1 THEN parts[1]
  ELSE parts[1] \o sep \o JoinWith(Tail(parts), sep)

RECURSIVE FilterNonEmpty(_)
FilterNonEmpty(parts) ==
  IF parts = <<>> THEN <<>>
  ELSE IF Head(parts) # "" THEN <<Head(parts)>> \o FilterNonEmpty(Tail(parts))
  ELSE FilterNonEmpty(Tail(parts))

locationKeyForEvent(e) ==
  IF e.venue.id # "" THEN "vid:" \o e.venue.id
  ELSE LET venueName == toLowerCase(e.venue.name)
           city      == toLowerCase(e.venue.city)
           region    == toLowerCase(e.venue.state)
           base      == JoinWith(FilterNonEmpty(<<city, region, venueName>>), "|")
       IN  IF base # "" THEN "loc:" \o base ELSE "loc:unknown"

\* sortKeyForEvent(a).localeCompare(sortKeyForEvent(b)) for the keys
\* `${date}T${time || "00:00:00"}`: the dates decide field by field; where one
\* date is a proper prefix of the other, its "T" meets a digit or "-" of the
\* longer date and is the greater character; equal dates leave it to the times
RECURSIVE SortDateCompare(_, _)
SortDateCompare(a, b) ==
  IF a = <<>> /\ b = <<>> THEN 0
  ELSE IF a = <<>> THEN 1
  ELSE IF b = <<>> THEN 0 - 1
  ELSE IF Head(a) # Head(b) THEN (IF Head(a) < Head(b) THEN 0 - 1 ELSE 1)
  ELSE SortDateCompare(Tail(a), Tail(b))

sortKeyCompare(a, b) ==
  LET c  == SortDateCompare(a.localDate, b.localDate)
      ta == StrRank(OrElse(a.localTime, "00:00:00"))
      tb == StrRank(OrElse(b.localTime, "00:00:00"))
  IN  IF c # 0 THEN c ELSE ta - tb

RECURSIVE InsertBySortKey(_, _)
InsertBySortKey(sorted, x) ==
  IF sorted = <<>> THEN <<x>>
  ELSE IF sortKeyCompare(Head(sorted), x) <= 0
       THEN <<Head(sorted)>> \o InsertBySortKey(Tail(sorted), x)
       ELSE <<x>> \o sorted

\* events.slice().sort((a, b) => sortKeyForEvent(a).localeCompare(sortKeyForEvent(b)))
RECURSIVE SortBySortKey(_)
SortBySortKey(events) ==
  IF events = <<>> THEN <<>>
  ELSE InsertBySortKey(SortBySortKey(SubSeq(events, 1, Len(events) - 1)),
                       events[Len(events)])

RECURSIVE FilterYMD(_)
FilterYMD(events) ==
  IF events = <<>> THEN <<>>
  ELSE IF isYMD(Head(events).localDate)
       THEN <<Head(events)>> \o FilterYMD(Tail(events))
       ELSE FilterYMD(Tail(events))

\* the run loop without the push of the open run after the loop
RECURSIVE LocationRunsDropLast(_, _, _)
LocationRunsDropLast(list, occs, cur) ==
  IF list = <<>> THEN occs
  ELSE IF cur = <<>> THEN LocationRunsDropLast(Tail(list), occs, <<Head(list)>>)
  ELSE IF locationKeyForEvent(Head(list)) = locationKeyForEvent(cur[1])
       THEN LocationRunsDropLast(Tail(list), occs, Append(cur, Head(list)))
       ELSE LocationRunsDropLast(Tail(list), Append(occs, cur), <<Head(list)>>)

\* the loop of buildOccurrencesSingleByLocationRuns over the sorted list:
\* occs are the closed runs, cur the open one
RECURSIVE LocationRuns(_, _, _)
LocationRuns(list, occs, cur) ==
  IF list = <<>> THEN (IF cur # <<>> THEN Append(occs, cur) ELSE occs)
  ELSE LET e == Head(list)
       IN  IF cur = <<>> THEN LocationRuns(Tail(list), occs, <<e>>)
           ELSE IF locationKeyForEvent(e) = locationKeyForEvent(cur[1])
                THEN LocationRuns(Tail(list), occs, Append(cur, e))
                ELSE LocationRuns(Tail(list), Append(occs, cur), <<e>>)

\* the single-pick builder reading a list that outlives the request: the events
\* of the request are appended to those already in allEvents
buildOccurrencesSingleOnKeptList(events) ==
  LocationRuns(SortBySortKey(FilterYMD(allEvents \o events)), <<>>, <<>>)

buildOccurrencesSingleByLocationRuns(events) ==
  LocationRuns(SortBySortKey(FilterYMD(events)), <<>>, <<>>)

(***************************************************************************)
(* Picks.                                                                  *)
(***************************************************************************)
Pick(type, league, attractionId, name, bucket) ==
  [type |-> type, league |-> league, attractionId |-> attractionId, name |-> name,
   bucket |-> bucket, slot |-> ""]

\* parsePickOrRaw on the colon-separated parts of the trimmed parameter
parsePickOrRaw(parts) ==
  IF parts = <<>> THEN NullPick
  ELSE LET kind == parts[1]
           n == Len(parts)
       IN  CASE kind = "team" ->
                  IF n >= 4
                  THEN Pick("team", parts[2], parts[3], JoinWith(SubSeq(parts, 4, n), ":"), "")
                  ELSE IF n >= 3
                  THEN Pick("team", parts[2], "", JoinWith(SubSeq(parts, 3, n), ":"), "")
                  ELSE NullPick
             [] kind = "artist" ->
                  IF n >= 2 THEN Pick("artist", "", parts[2], "", "") ELSE NullPick
             [] kind = "genre" ->
                  Pick("genre", "", "", JoinWith(SubSeq(parts, 3, n), ":"),
                       IF n >= 2 THEN parts[2] ELSE "")
             [] OTHER -> Pick("raw", "", "", JoinWith(parts, ":"), "")

isEntityPick(p) == p # NullPick /\ p.type \in {"team", "artist"}

\* the pick asks resolveBestAttraction for an id
NeedsResolution(pick) ==
  pick # NullPick /\ pick.type = "team" /\ pick.attractionId = "" /\ pick.name # ""

\* what resolveBestAttraction can answer for a team name: the id of the best
\* candidate, or "" when the lookup finds none
ResolveOutcomes(pick) == IF NeedsResolution(pick) THEN {"", "K1"} ELSE {""}

\* ensureAttractionId, and the same lookup inside the fetch loops, with the
\* lookup's answer `found`
ensureAttractionId(pick, found) ==
  IF NeedsResolution(pick) /\ found # ""
  THEN [pick EXCEPT !.attractionId = found]
  ELSE pick

(***************************************************************************)
(* Filters of the fetched events.                                          *)
(***************************************************************************)
GENRE_EXPANSION ==
  [Country |-> {"country", "contemporary country", "country rock", "americana", "bluegrass"},
   Rock |-> {"rock", "alternative", "indie", "punk", "grunge", "hard rock"},
   Pop |-> {"pop", "k-pop", "kpop", "j-pop", "jpop"},
   Rap |-> {"rap", "hip hop", "hip-hop", "trap"},
   Electronic |-> {"electronic", "edm", "dance", "house", "techno", "trance", "dubstep"},
   Jazz |-> {"jazz", "swing", "bebop", "big band"},
   Classical |-> {"classical", "orchestra", "symphony", "opera", "baroque"},
   Latin |-> {"latin", "reggaeton", "bachata", "salsa", "cumbia", "mariachi"},
   Metal |-> {"metal", "metalcore", "death metal", "black metal", "thrash"},
   Reggae |-> {"reggae", "ska", "dancehall", "dub"},
   Folk |-> {"folk", "singer-songwriter", "traditional"}]
  @@ ("R&B" :> {"r&b", "rnb", "rhythm and blues", "neo soul", "neo-soul", "soul"})

\* String.prototype.includes for the genre names of the model's events
Includes(g, k) ==
  CASE g = "rock" -> k = "rock"
    [] g = "jazz" -> k = "jazz"
    [] OTHER -> FALSE

eventMatchesGenreBucket(event, bucket) ==
  /\ bucket \in DOMAIN GENRE_EXPANSION
  /\ \E k \in GENRE_EXPANSION[bucket] : Includes(event.genre, k)

InDateRange(ev, range) ==
  LET d == ev.localDate
  IN  /\ isYMD(d)
      /\ ~(range.s # <<>> /\ DateLess(d, range.s))
      /\ ~(range.e # <<>> /\ DateLess(range.e, d))

\* the events of the range, in their order
RECURSIVE FilterInDateRange(_, _)
FilterInDateRange(events, range) ==
  IF events = <<>> THEN <<>>
  ELSE IF InDateRange(Head(events), range)
       THEN <<Head(events)>> \o FilterInDateRange(Tail(events), range)
       ELSE FilterInDateRange(Tail(events), range)

filterEventsByDateRange(events, startDate, endDate) ==
  LET s == IF isYMD(startDate) THEN startDate ELSE <<>>
      e == IF isYMD(endDate) THEN endDate ELSE <<>>
  IN  IF s = <<>> /\ e = <<>> THEN events
      ELSE FilterInDateRange(events, [s |-> s, e |-> e])

\* the filters of the fetch loop without .filter(hasTicketLink)
KeepForPickUnlinked(e, pick) ==
  pick.type = "genre" => eventMatchesGenreBucket(e, pick.bucket)

KeepForPick(e, pick) ==
  /\ pick.type = "genre" => eventMatchesGenreBucket(e, pick.bucket)
  /\ hasTicketLink(e)

\* the events the fetch loop keeps for the pick, in their order
RECURSIVE FilterForPick(_, _)
FilterForPick(events, pick) ==
  IF events = <<>> THEN <<>>
  ELSE IF KeepForPick(Head(events), pick)
       THEN <<Head(events)>> \o FilterForPick(Tail(events), pick)
       ELSE FilterForPick(Tail(events), pick)

\* events -> date range filter -> genre filter -> hasTicketLink -> {...e, __pick}
MappedForPick(events, pick, startDate, endDate) ==
  LET kept == FilterForPick(filterEventsByDateRange(events, startDate, endDate), pick)
  IN  [i \in 1..Len(kept) |-> [kept[i] EXCEPT !.pick = pick]]

(***************************************************************************)
(* Fallback: schedule labels and the closest pair.                         *)
(***************************************************************************)
pickLabelFromPick(pick) ==
  IF pick = NullPick THEN "Pick"
  ELSE CASE pick.type = "team" -> OrElse(pick.name, "Team")
         [] pick.type = "genre" -> OrElse(pick.bucket, OrElse(pick.name, "Genre"))
         [] pick.type = "raw" -> OrElse(pick.name, "Pick")
         [] OTHER -> OrElse(pick.name, "Artist")

\* labelFromScheduleEvents; the model's events carry no attractions list, so
\* the search for the artist's name in it finds nothing
labelFromScheduleEvents(pick, events) == pickLabelFromPick(pick)

summarizeEventForClosest(e, fallbackLabel) ==
  [label  |-> OrElse(fallbackLabel, OrElse(e.pick.name, "Event")),
   date   |-> e.localDate,
   city   |-> e.venue.city,
   region |-> e.venue.state,
   venue  |-> e.venue.name]

\* the step without the tie-breaks: only a strictly nearer candidate replaces best
ClosestStepFirstWins(best, ea, eb, maxDiffDays, labelA, labelB) ==
  LET da == ea.localDate
      db == eb.localDate
      daysApart == diffDaysAbs(da, db)
      eligible ==
        /\ isYMD(da) /\ hasCoords(ea)
        /\ isYMD(db)
        /\ daysApart # NullDays /\ daysApart <= maxDiffDays
        /\ hasCoords(eb)
      candidate ==
        [miles |-> haversineMiles(ea.venue.latitude, ea.venue.longitude,
                                  eb.venue.latitude, eb.venue.longitude),
         daysApart |-> daysApart,
         p1 |-> summarizeEventForClosest(ea, labelA),
         p2 |-> summarizeEventForClosest(eb, labelB),
         earliest |-> IF DateLess(da, db) THEN da ELSE db]
  IN  IF ~eligible THEN best
      ELSE IF best = <<>> THEN <<candidate>>
      ELSE IF candidate.miles < best[1].miles THEN <<candidate>>
      ELSE best

\* one (ea, eb) step of findClosestPairWithinDays: best is <<>> or <<candidate>>
ClosestStep(best, ea, eb, maxDiffDays, labelA, labelB) ==
  LET da == ea.localDate
      db == eb.localDate
      daysApart == diffDaysAbs(da, db)
      eligible ==
        /\ isYMD(da) /\ hasCoords(ea)
        /\ isYMD(db)
        /\ daysApart # NullDays /\ daysApart <= maxDiffDays
        /\ hasCoords(eb)
      candidate ==
        [miles |-> haversineMiles(ea.venue.latitude, ea.venue.longitude,
                                  eb.venue.latitude, eb.venue.longitude),
         daysApart |-> daysApart,
         p1 |-> summarizeEventForClosest(ea, labelA),
         p2 |-> summarizeEventForClosest(eb, labelB),
         earliest |-> IF DateLess(da, db) THEN da ELSE db]
  IN  IF ~eligible THEN best
      ELSE IF best = <<>> THEN <<candidate>>
      ELSE IF candidate.miles < best[1].miles THEN <<candidate>>
      ELSE IF candidate.miles = best[1].miles
              /\ \/ candidate.daysApart < best[1].daysApart
                 \/ /\ candidate.daysApart = best[1].daysApart
                    /\ DateLess(candidate.earliest, best[1].earliest)
           THEN <<candidate>>
      ELSE best

\* the two nested loops, at position (i, j)
RECURSIVE ClosestLoop(_, _, _, _, _, _, _, _)
ClosestLoop(A, B, i, j, best, maxDiffDays, labelA, labelB) ==
  IF i > Len(A) THEN best
  ELSE IF j > Len(B) THEN ClosestLoop(A, B, i + 1, 1, best, maxDiffDays, labelA, labelB)
  ELSE ClosestLoop(A, B, i, j + 1,
                   ClosestStep(best, A[i], B[j], maxDiffDays, labelA, labelB),
                   maxDiffDays, labelA, labelB)

\* <<>> for null, else <<[miles, daysApart, p1, p2]>>
findClosestPairWithinDays(eventsA, eventsB, maxDiffDays, labelA, labelB) ==
  IF eventsA = <<>> \/ eventsB = <<>> THEN <<>>
  ELSE LET best == ClosestLoop(eventsA, eventsB, 1, 1, <<>>, maxDiffDays, labelA, labelB)
       IN  IF best = <<>> THEN <<>>
           ELSE <<[miles |-> best[1].miles, daysApart |-> best[1].daysApart,
                   p1 |-> best[1].p1, p2 |-> best[1].p2]>>

(***************************************************************************)
(* The results page: the fallback schedules as the overlay lists them.     *)
(***************************************************************************)
\* hh * 60 + mm of the times of the model, 999999 without a time
MinutesOfDay(t) ==
  CASE t = "00:00:00" -> 0
    [] t = "19:00:00" -> 19 * 60
    [] t = "20:00:00" -> 20 * 60
    [] OTHER -> 999999

\* eventSortKey is the number dKey * 100000 + tKey; the pair <<dKey, tKey>> has
\* the same equalities for the tKey values that occur (minutes of a day, 999999)
eventSortKey(e) ==
  <<IF e.localDate = <<>> THEN 99999999
    ELSE e.localDate[1] * 10000 + e.localDate[2] * 100 + e.localDate[3],
    MinutesOfDay(e.localTime)>>

toUpperCase(s) == IF s = "on" THEN "ON" ELSE s

eventVenueKey(e) ==
  toLowerCase(e.venue.name) \o "|" \o toLowerCase(e.venue.city) \o "|" \o toUpperCase(e.venue.state)

\* the titles of the model hold letters only
normalizeTitleForDedup(s) == toLowerCase(s)

\* the key dedupeEventsWithinOccurrence tells events apart by
DedupKey(e) ==
  IF e.id # "" THEN <<e.id>>
  ELSE <<eventSortKey(e), eventVenueKey(e), normalizeTitleForDedup(e.name)>>

\* the loop of dedupeEventsWithinOccurrence: the first event of every key is kept
RECURSIVE DedupLoop(_, _, _)
DedupLoop(events, seen, out) ==
  IF events = <<>> THEN out
  ELSE IF DedupKey(Head(events)) \in seen
       THEN DedupLoop(Tail(events), seen, out)
       ELSE DedupLoop(Tail(events), seen \cup {DedupKey(Head(events))},
                      Append(out, Head(events)))

\* the loop that keeps every event
KeepDuplicates(events) == events

dedupeEventsWithinOccurrence(events) == DedupLoop(events, {}, <<>>)

dedupeScheduleEvents(events) == dedupeEventsWithinOccurrence(events)

\* .filter((e) => !!eventUrl(e))
RECURSIVE FilterEventUrl(_)
FilterEventUrl(events) ==
  IF events = <<>> THEN <<>>
  ELSE IF Head(events).url # ""
       THEN <<Head(events)>> \o FilterEventUrl(Tail(events))
       ELSE FilterEventUrl(Tail(events))

\* p1Events / p2Events of buildMergedFallbackScheduleRows
FallbackScheduleEvents(events) == FilterEventUrl(dedupeScheduleEvents(events))

(***************************************************************************)
(* The GET handler of /api/search.                                         *)
(***************************************************************************)
NoResp == [status |-> "pending", count |-> 0, occurrences |-> <<>>,
           fallback |-> <<>>, closest |-> <<>>]

\* one element of occurrencesForUi; startYMD / endYMD null is <<>>
OccurrenceForUi(occ, mode, locKey) ==
  LET dates == uniqueSortedDates(occ)
  IN  [events |-> occ,
       meta |-> [anchor |-> getAnchorLatLon(occ),
                 startYMD |-> IF dates = <<>> THEN <<>> ELSE dates[1],
                 endYMD |-> IF dates = <<>> THEN <<>> ELSE dates[Len(dates)],
                 mode |-> mode, locKey |-> locKey]]

\* a mode selection that goes to the normal mode whenever a third pick is given
singleModeUnlessThird(rawP1Orig, rawP2Orig, p1, p2) ==
  /\ req.p3 = <<>>
  /\ \/ rawP1Orig = <<>> /\ rawP2Orig # <<>>
     \/ rawP1Orig # <<>> /\ rawP2Orig = <<>>
     \/ rawP1Orig # <<>> /\ rawP2Orig # <<>> /\ rawP1Orig = rawP2Orig
     \/ /\ isEntityPick(p1) /\ isEntityPick(p2)
        /\ p1.attractionId # "" /\ p2.attractionId # ""
        /\ p1.attractionId = p2.attractionId

\* the mode selection that asks for both parameters
singleModeBothFilled(rawP1Orig, rawP2Orig, p1, p2) ==
  \/ rawP1Orig # <<>> /\ rawP2Orig # <<>> /\ rawP1Orig = rawP2Orig
  \/ /\ isEntityPick(p1) /\ isEntityPick(p2)
     /\ p1.attractionId # "" /\ p2.attractionId # ""
     /\ p1.attractionId = p2.attractionId

\* the mode selection by the raw parameters alone
singleModeByRawOnly(rawP1Orig, rawP2Orig, p1, p2) ==
  \/ rawP1Orig = <<>> /\ rawP2Orig # <<>>
  \/ rawP1Orig # <<>> /\ rawP2Orig = <<>>
  \/ rawP1Orig # <<>> /\ rawP2Orig # <<>> /\ rawP1Orig = rawP2Orig

\* singleMode of GET, from the raw parameters and the picks after ensureAttractionId
singleMode(rawP1Orig, rawP2Orig, p1, p2) ==
  \/ rawP1Orig = <<>> /\ rawP2Orig # <<>>
  \/ rawP1Orig # <<>> /\ rawP2Orig = <<>>
  \/ rawP1Orig # <<>> /\ rawP2Orig # <<>> /\ rawP1Orig = rawP2Orig
  \/ /\ isEntityPick(p1) /\ isEntityPick(p2)
     /\ p1.attractionId # "" /\ p2.attractionId # ""
     /\ p1.attractionId = p2.attractionId

\* an effective day count one above the requested day count
effectiveDaysWidened(userDays) == Max(1, userDays + 1)

\* the effective day count GET hands to the builder
effectiveDaysOf(userDays) == Max(1, userDays - 1)

\* the payload of the single-mode branch
SingleModePayload(events, occurrences) ==
  [allEvents |-> events,
   built |-> <<>>,
   resp |-> [status |-> "ok",
             count |-> Len(occurrences),
             occurrences |->
               [i \in 1..Len(occurrences) |->
                  OccurrenceForUi(occurrences[i], "SINGLE_PICK_LOCATION_RUNS",
                                  locationKeyForEvent(occurrences[i][1]))],
             fallback |-> <<>>, closest |-> <<>>]]

SingleModeBuild(events) ==
  SingleModePayload(events, buildOccurrencesSingleByLocationRuns(events))

\* The single-mode branch: anchorPick after its lookup, the events fetched for it.
SingleModeBranch(anchorPick, fetched, startDate, endDate) ==
  SingleModeBuild(MappedForPick(fetched, anchorPick, startDate, endDate))

\* The payload of the normal-mode branch: fallback and closest are present
\* (one-element sequences) only when there is no occurrence.
NormalModePayload(events, clusters, s1, s2, p1Label, p2Label, windowDays, best) ==
  [allEvents |-> events,
   built |-> clusters,
   resp |-> [status |-> "ok",
             count |-> Len(clusters),
             occurrences |->
               [i \in 1..Len(clusters) |-> OccurrenceForUi(clusters[i].val, "", "")],
             fallback |->
               IF Len(clusters) = 0
               THEN <<[mode |-> "NO_OVERLAP_SCHEDULES",
                       schedules |-> <<[label |-> p1Label, events |-> s1],
                                       [label |-> p2Label, events |-> s2]>>]>>
               ELSE <<>>,
             closest |->
               IF Len(clusters) = 0 /\ best # <<>>
               THEN <<[miles |-> best[1].miles, daysApart |-> best[1].daysApart,
                       p1 |-> best[1].p1, p2 |-> best[1].p2,
                       withinDays |-> windowDays]>>
               ELSE <<>>]]

\* the fallback with the closest pair searched within the clamped window
NormalModeFallbackClamped(events, clusters, s1, s2, p1Label, p2Label, userDays) ==
  NormalModePayload(events, clusters, s1, s2, p1Label, p2Label, Max(1, userDays),
                    findClosestPairWithinDays(s1, s2,
                                              Max(0, effectiveDaysOf(userDays) - 1),
                                              p1Label, p2Label))

\* the fallback part of the normal-mode branch
NormalModeFallback(events, clusters, s1, s2, p1Label, p2Label, userDays) ==
  NormalModePayload(events, clusters, s1, s2, p1Label, p2Label, Max(1, userDays),
                    findClosestPairWithinDays(s1, s2, Max(0, Max(1, userDays) - 1),
                                              p1Label, p2Label))

\* the normal-mode branch after the fetch loop: scheduleBySlot.p1 is mapped1,
\* scheduleBySlot.p2 is mapped2
NormalModeBuild(p1, p2, mapped1, mapped2, mapped3, radiusMiles, userDays) ==
  NormalModeFallback(mapped1 \o mapped2 \o mapped3,
                     buildOccurrencesByRadiusAndDays(mapped1 \o mapped2 \o mapped3,
                                                     radiusMiles,
                                                     effectiveDaysOf(userDays)),
                     SortBySortKey(mapped1), SortBySortKey(mapped2),
                     labelFromScheduleEvents(p1, mapped1),
                     labelFromScheduleEvents(p2, mapped2),
                     userDays)

\* The normal-mode branch: the picks with their slots and lookups done, the
\* events fetched for each of them (pool3 is empty without a third pick).
NormalModeBranch(p1, p2, p3, pool1, pool2, pool3, radiusMiles, userDays, startDate, endDate) ==
  NormalModeBuild(p1, p2,
                  MappedForPick(pool1, p1, startDate, endDate),
                  MappedForPick(pool2, p2, startDate, endDate),
                  IF p3 = NullPick THEN <<>>
                  ELSE MappedForPick(pool3, p3, startDate, endDate),
                  radiusMiles, userDays)

\* the handler's answer becomes the state
Answer(ps, m, answers, out) ==
  /\ picks' = ps
  /\ branch' = m
  /\ tmEvents' = answers
  /\ allEvents' = out.allEvents
  /\ built' = out.built
  /\ resp' = out.resp

\* the sequences over S of length at most n
SeqsUpTo(S, n) == UNION {[1..k -> S] : k \in 0..n}

\* the raw picks as GET reads and mirrors them
effectiveRawP1 == IF req.p1 # <<>> THEN req.p1 ELSE req.p2
effectiveRawP2 == IF req.p2 # <<>> THEN req.p2 ELSE req.p1
parsedP1 == parsePickOrRaw(effectiveRawP1)
parsedP2 == parsePickOrRaw(effectiveRawP2)
parsedP3 == IF req.p3 # <<>> THEN parsePickOrRaw(req.p3) ELSE NullPick

\* GET returns early: no usable pick in p1 / p2
GET_NoPick ==
  /\ pc = "received"
  /\ parsedP1 = NullPick \/ parsedP2 = NullPick
  /\ pc' = "done"
  /\ picks' = [p1 |-> parsedP1, p2 |-> parsedP2, p3 |-> parsedP3]
  /\ branch' = "none"
  /\ resp' = [NoResp EXCEPT !.status = "ok"]
  /\ UNCHANGED <<provider, req, tmEvents, allEvents, built, optionsVars, pageVars, nearbyVars>>

\* GET takes the single-mode branch
GET_Single ==
  /\ pc = "received"
  /\ parsedP1 # NullPick /\ parsedP2 # NullPick
  /\ \E f1 \in ResolveOutcomes(parsedP1), f2 \in ResolveOutcomes(parsedP2),
        f3 \in ResolveOutcomes(parsedP3) :
       LET p1 == ensureAttractionId(parsedP1, f1)
           p2 == ensureAttractionId(parsedP2, f2)
           p3 == ensureAttractionId(parsedP3, f3)
           anchor0 == IF req.p1 # <<>> THEN p1 ELSE IF req.p2 # <<>> THEN p2 ELSE p1
       IN  /\ singleMode(req.p1, req.p2, p1, p2)
           /\ \E g \in ResolveOutcomes(anchor0),
                 fetched \in SeqsUpTo(provider.catalogue, provider.limit) :
                Answer([p1 |-> p1, p2 |-> p2, p3 |-> p3], "single", <<fetched>>,
                       SingleModeBranch(ensureAttractionId(anchor0, g), fetched,
                                        req.startDate, req.endDate))
  /\ pc' = "done"
  /\ UNCHANGED <<provider, req, optionsVars, pageVars, nearbyVars>>

\* the normal-mode branch for the picks e1, e2, e3 that the mode was selected on,
\* the same picks with their slots and the fetch loop's lookups (p1, p2, p3), and
\* the fetched pools
NormalAnswer(e1, e2, e3, p1, p2, p3, pool1, pool2, pool3) ==
  Answer([p1 |-> e1, p2 |-> e2, p3 |-> e3], "normal",
         IF p3 = NullPick THEN <<pool1, pool2>> ELSE <<pool1, pool2, pool3>>,
         NormalModeBranch(p1, p2, p3, pool1, pool2, pool3, req.radiusMiles, req.days,
                          req.startDate, req.endDate))

\* GET takes the normal-mode branch
GET_Normal ==
  /\ pc = "received"
  /\ parsedP1 # NullPick /\ parsedP2 # NullPick
  /\ \E f1 \in ResolveOutcomes(parsedP1), f2 \in ResolveOutcomes(parsedP2),
        f3 \in ResolveOutcomes(parsedP3) :
       LET e1 == ensureAttractionId(parsedP1, f1)
           e2 == ensureAttractionId(parsedP2, f2)
           e3 == ensureAttractionId(parsedP3, f3)
       IN  /\ ~singleMode(req.p1, req.p2, e1, e2)
           /\ \E g1 \in ResolveOutcomes(e1), g2 \in ResolveOutcomes(e2),
                 g3 \in ResolveOutcomes(e3) :
              \E pool1 \in SeqsUpTo(provider.catalogue, provider.limit) :
              \E pool2 \in SeqsUpTo(provider.catalogue, provider.limit - Len(pool1)) :
              \E pool3 \in IF e3 = NullPick THEN {<<>>}
                           ELSE SeqsUpTo(provider.catalogue,
                                         provider.limit - Len(pool1) - Len(pool2)) :
                NormalAnswer(e1, e2, e3,
                             ensureAttractionId([e1 EXCEPT !.slot = "p1"], g1),
                             ensureAttractionId([e2 EXCEPT !.slot = "p2"], g2),
                             IF e3 = NullPick THEN NullPick
                             ELSE ensureAttractionId([e3 EXCEPT !.slot = "p3"], g3),
                             pool1, pool2, pool3)
  /\ pc' = "done"
  /\ UNCHANGED <<provider, req, optionsVars, pageVars, nearbyVars>>

(***************************************************************************)
(* The options route (GET /api/options): the in-memory cache of the        *)
(* combined options and the build that fills it.                           *)
(***************************************************************************)
\* what buildCombinedOptions resolves to: the team options always, the artist
\* options when the provider's pages were fetched
Built(artists) == [teams |-> TRUE, artists |-> artists, error |-> ""]

\* the payload of the catch branch
Failed == [teams |-> FALSE, artists |-> FALSE, error |-> "Unknown error"]

\* the branch GET takes on the cache c at the time now
OptionsBranchWithoutInflight(c, now) ==
  IF c.value # <<>> /\ c.expiresAt > now THEN "HIT" ELSE "MISS"

OptionsBranch(c, now) ==
  IF c.value # <<>> /\ c.expiresAt > now THEN "HIT"
  ELSE IF c.inflight # 0 THEN "HIT-INFLIGHT"
  ELSE "MISS"

\* GET up to its first await: it answers from the cache, awaits the build in
\* flight, or starts a build and awaits it
OptionsGET ==
  /\ Len(gets) < MaxGets
  /\ LET header == OptionsBranch(cache, clock)
         started == Len(builds) + 1
     IN  CASE header = "HIT" ->
                /\ gets' = Append(gets, [pc |-> "done", now |-> clock, header |-> header,
                                         awaits |-> 0, status |-> 200,
                                         payload |-> cache.value[1]])
                /\ UNCHANGED <<cache, builds>>
           [] header = "HIT-INFLIGHT" ->
                /\ gets' = Append(gets, [pc |-> "await", now |-> clock, header |-> header,
                                         awaits |-> cache.inflight, status |-> 0,
                                         payload |-> Failed])
                /\ UNCHANGED <<cache, builds>>
           [] header = "MISS" ->
                /\ builds' = Append(builds, [status |-> "running", startedAt |-> clock,
                                             settledAt |-> 0, outcome |-> "",
                                             payload |-> Failed])
                /\ cache' = [cache EXCEPT !.inflight = started]
                /\ gets' = Append(gets, [pc |-> "await", now |-> clock, header |-> header,
                                         awaits |-> started, status |-> 0,
                                         payload |-> Failed])
  /\ UNCHANGED <<clock, searchVars, pageVars, nearbyVars>>

\* the outcomes of buildCombinedOptions: the provider's pages are fetched; the
\* fetches fail (fetchJson returns ok: false for a thrown error, an abort or a
\* non-OK response, and getMusicArtists skips the page); the build throws
BuildOutcomes == {"ok", "fetchesFailed", "threw"}

\* the async function of cache.inflight from the result of buildCombinedOptions on
BuildSettles(b, outcome) ==
  /\ builds[b].status = "running"
  /\ builds' = [builds EXCEPT ![b] =
                 [status |-> "settled", startedAt |-> builds[b].startedAt,
                  settledAt |-> clock, outcome |-> outcome,
                  payload |-> IF outcome = "threw" THEN Failed
                              ELSE Built(outcome = "ok")]]
  /\ cache' = IF outcome = "threw" THEN [cache EXCEPT !.inflight = 0]
              ELSE [value |-> <<Built(outcome = "ok")>>,
                    expiresAt |-> clock + TtlTicks,
                    inflight |-> 0]
  /\ UNCHANGED <<clock, gets, searchVars, pageVars, nearbyVars>>

\* GET after `await cache.inflight`
OptionsRespond(g) ==
  /\ gets[g].pc = "await"
  /\ builds[gets[g].awaits].status = "settled"
  /\ gets' = [gets EXCEPT ![g] =
               [pc |-> "done", now |-> gets[g].now, header |-> gets[g].header,
                awaits |-> gets[g].awaits,
                status |-> IF gets[g].header = "MISS"
                              /\ builds[gets[g].awaits].payload.error # ""
                           THEN 500 ELSE 200,
                payload |-> builds[gets[g].awaits].payload]]
  /\ UNCHANGED <<cache, clock, builds, searchVars, pageVars, nearbyVars>>

\* time passes
Tick ==
  /\ clock < MaxClock
  /\ clock' = clock + 1
  /\ UNCHANGED <<cache, builds, gets, searchVars, pageVars, nearbyVars>>

\* no options request yet, the cache as getCacheBucket creates it
OptionsIdle ==
  /\ cache = [value |-> <<>>, expiresAt |-> 0, inflight |-> 0]
  /\ clock = 1
  /\ builds = <<>>
  /\ gets = <<>>

(***************************************************************************)
(* The results page: the search effect of ResultsPage, in the two copies   *)
(* of app/results/page.tsx.                                                *)
(***************************************************************************)
\* the query strings of the model; "" is the URL without parameters
QueryStrings == {"", "p1=a", "p1=b"}

NoData == [qs |-> "none", error |-> FALSE]

\* before the first render
PageIdle ==
  /\ pageCopy \in {1, 2}
  /\ qsString = "none"
  /\ requests = <<>>
  /\ data = NoData
  /\ loading = TRUE

\* ac.abort() of the cleanup of the last effect run (copy 1 only; there is none
\* to run when the last run returned early or never happened)
Cleanup ==
  IF pageCopy = 1 /\ requests # <<>> /\ qsString # ""
  THEN [requests EXCEPT ![Len(requests)].aborted = TRUE]
  ELSE requests

\* the search effect runs for the query string q: on the first render and
\* whenever the query string changes
SearchEffect(q) ==
  /\ q # qsString
  /\ Len(requests) < MaxRequests
  /\ qsString' = q
  /\ IF pageCopy = 1 /\ q = ""
     THEN requests' = Cleanup /\ UNCHANGED loading
     ELSE /\ requests' = Append(Cleanup, [qs |-> q, aborted |-> FALSE, status |-> "pending",
                                          wrote |-> FALSE, latest |-> TRUE])
          /\ loading' = TRUE
  /\ UNCHANGED <<pageCopy, data, searchVars, optionsVars, nearbyVars>>

\* the promise chain of request i settles: the fetch and r.json() succeed, or
\* one of them rejects; an aborted fetch rejects with an AbortError
RequestSettles(i, ok) ==
  /\ requests[i].status = "pending"
  /\ requests' = [requests EXCEPT ![i].status = IF ok THEN "ok" ELSE "failed",
                                  ![i].wrote = ~requests[i].aborted,
                                  ![i].latest = (i = Len(requests))]
  /\ IF requests[i].aborted THEN UNCHANGED <<data, loading>>
     ELSE /\ loading' = FALSE
          /\ data' = IF ok THEN [qs |-> requests[i].qs, error |-> FALSE]
                     ELSE IF pageCopy = 1 THEN [qs |-> requests[i].qs, error |-> TRUE]
                     ELSE data
  /\ UNCHANGED <<pageCopy, qsString, searchVars, optionsVars, nearbyVars>>

(***************************************************************************)
(* The results page: the nearby events of an occurrence.                   *)
(***************************************************************************)
OccKeys == {"occ-0", "occ-1"}

NearbyIdle ==
  /\ popularCacheByOcc = [k \in OccKeys |-> "none"]
  /\ showPopularByOcc = [k \in OccKeys |-> FALSE]
  /\ rendered = [k \in OccKeys |-> "none"]
  /\ nearbyRequests = <<>>

\* fetchNearbyPopularOnce up to its await: the updater marks the entry as
\* loading unless it is loading or loaded, and the request is issued
fetchNearbyPopularOnce(occKey) ==
  /\ popularCacheByOcc' =
       IF popularCacheByOcc[occKey] \in {"loading", "loaded"} THEN popularCacheByOcc
       ELSE [popularCacheByOcc EXCEPT ![occKey] = "loading"]
  /\ nearbyRequests' = Append(nearbyRequests, [occKey |-> occKey, status |-> "pending"])

\* a click on the toggle of an occurrence that can fetch nearby events; the
\* handler reads the cache entry of the render it was created in
toggleOtherPopular(occKey) ==
  /\ Len(nearbyRequests) < MaxNearby
  /\ showPopularByOcc' = [showPopularByOcc EXCEPT ![occKey] = ~showPopularByOcc[occKey]]
  /\ IF ~showPopularByOcc[occKey] /\ rendered[occKey] \notin {"loading", "loaded"}
     THEN fetchNearbyPopularOnce(occKey)
     ELSE UNCHANGED <<popularCacheByOcc, nearbyRequests>>
  /\ UNCHANGED <<rendered, searchVars, optionsVars, pageVars>>

\* React commits a render: the handlers see the current cache
Commit ==
  /\ rendered # popularCacheByOcc
  /\ rendered' = popularCacheByOcc
  /\ UNCHANGED <<popularCacheByOcc, showPopularByOcc, nearbyRequests,
                 searchVars, optionsVars, pageVars>>

\* fetchNearbyPopularOnce after its awaits: the entry becomes loaded, with the
\* events or with the error
NearbySettles(i) ==
  /\ nearbyRequests[i].status = "pending"
  /\ nearbyRequests' = [nearbyRequests EXCEPT ![i].status = "settled"]
  /\ popularCacheByOcc' = [popularCacheByOcc EXCEPT ![nearbyRequests[i].occKey] = "loaded"]
  /\ UNCHANGED <<showPopularByOcc, rendered, searchVars, optionsVars, pageVars>>

(***************************************************************************)
(* Specifications.                                                         *)
(***************************************************************************)
Requests(P1s, P2s, P3s) ==
  [p1 : P1s, p2 : P2s, p3 : P3s, days : 1..MaxDays, radiusMiles : Radii,
   startDate : {<<>>}, endDate : {<<>>}]

\* the requests that may carry a date range
RequestsInRange(P1s, P2s, P3s, Starts, Ends) ==
  [p1 : P1s, p2 : P2s, p3 : P3s, days : 1..MaxDays, radiusMiles : Radii,
   startDate : Starts, endDate : Ends]

\* the results page without a search effect run
PageUnused ==
  /\ pageCopy = 1
  /\ qsString = "none"
  /\ requests = <<>>
  /\ data = NoData
  /\ loading = TRUE

Received ==
  /\ OptionsIdle
  /\ PageUnused
  /\ NearbyIdle
  /\ pc = "received"
  /\ picks = [p1 |-> NullPick, p2 |-> NullPick, p3 |-> NullPick]
  /\ branch = "pending"
  /\ tmEvents = <<>>
  /\ allEvents = <<>>
  /\ built = <<>>
  /\ resp = NoResp

\* The handler under any pair of picks, over a small provider catalogue.
Init ==
  /\ provider = [catalogue |-> SmallCatalogue, limit |-> MaxFetched]
  /\ req \in Requests(RawPicks, RawPicks, {Blank, ArtistK3})
  /\ Received

Next == GET_NoPick \/ GET_Single \/ GET_Normal

Spec == Init /\ [][Next]_vars

\* The normal-mode branch for three different entity picks, over the catalogue
\* of placed and dated events.
InitOverlap ==
  /\ provider = [catalogue |-> GeoCatalogue, limit |-> MaxEvents]
  /\ req \in Requests({TeamLegacy}, {ArtistK2}, {ArtistK3})
  /\ Received

NextOverlap == GET_Normal

SpecOverlap == InitOverlap /\ [][NextOverlap]_vars

\* The normal-mode branch for three different entity picks, over the events of
\* one venue: enough events for clusters that differ in coverage, size and date.
InitRank ==
  /\ provider = [catalogue |-> RankCatalogue, limit |-> MaxRanked]
  /\ req \in Requests({TeamLegacy}, {ArtistK2}, {ArtistK3})
  /\ Received

NextRank == GET_Normal

SpecRank == InitRank /\ [][NextRank]_vars

\* The single-mode branch for one team pick, alone or given twice, with and
\* without a start date.
InitSingle ==
  /\ provider = [catalogue |-> SingleCatalogue, limit |-> MaxSingle]
  /\ req \in RequestsInRange({TeamLegacy}, {Blank, TeamLegacy}, {Blank}, {<<>>, D1}, {<<>>})
  /\ Received

NextSingle == GET_Single

SpecSingle == InitSingle /\ [][NextSingle]_vars

\* The normal-mode branch for a team or genre pick and an artist pick, over a
\* catalogue with undated, unplaced and unlinked events, with and without a
\* start date.
InitFallback ==
  /\ provider = [catalogue |-> FallbackCatalogue, limit |-> MaxSchedule]
  /\ req \in RequestsInRange({TeamLegacy, GenreRock}, {ArtistK2}, {Blank}, {<<>>, D1}, {<<>>})
  /\ Received

NextFallback == GET_Normal

SpecFallback == InitFallback /\ [][NextFallback]_vars

\* The normal-mode branch for a team pick and an artist pick, over events that
\* are pairwise equally far apart.
InitClosest ==
  /\ provider = [catalogue |-> TieCatalogue, limit |-> MaxTied]
  /\ req \in Requests({TeamLegacy}, {ArtistK2}, {Blank})
  /\ Received

NextClosest == GET_Normal

SpecClosest == InitClosest /\ [][NextClosest]_vars

\* The handler in every branch, over a catalogue with events that have no
\* ticket link.
InitTickets ==
  /\ provider = [catalogue |-> TicketCatalogue, limit |-> MaxLinked]
  /\ req \in Requests({TeamLegacy, Malformed}, {Blank, ArtistK2}, {Blank})
  /\ Received

NextTickets == GET_NoPick \/ GET_Single \/ GET_Normal

SpecTickets == InitTickets /\ [][NextTickets]_vars

\* The normal-mode branch for a team pick and an artist pick, over listings
\* that share an identity key.
InitCopies ==
  /\ provider = [catalogue |-> CopyCatalogue, limit |-> MaxCopies]
  /\ req \in Requests({TeamLegacy}, {ArtistK2}, {Blank})
  /\ Received

NextCopies == GET_Normal

SpecCopies == InitCopies /\ [][NextCopies]_vars

\* no search request
SearchIdle ==
  /\ provider = [catalogue |-> {}, limit |-> 0]
  /\ req = [p1 |-> <<>>, p2 |-> <<>>, p3 |-> <<>>, days |-> 1, radiusMiles |-> 10,
            startDate |-> <<>>, endDate |-> <<>>]
  /\ pc = "idle"
  /\ picks = [p1 |-> NullPick, p2 |-> NullPick, p3 |-> NullPick]
  /\ branch = "pending"
  /\ tmEvents = <<>>
  /\ allEvents = <<>>
  /\ built = <<>>
  /\ resp = NoResp

\* The options route of one warm instance under concurrent GET requests.
InitOptions == SearchIdle /\ OptionsIdle /\ PageUnused /\ NearbyIdle

NextOptions ==
  \/ OptionsGET
  \/ \E b \in 1..Len(builds), outcome \in BuildOutcomes : BuildSettles(b, outcome)
  \/ \E g \in 1..Len(gets) : OptionsRespond(g)
  \/ Tick

SpecOptions == InitOptions /\ [][NextOptions]_vars

\* The search effect of the results page while the query string changes.
InitPage == SearchIdle /\ OptionsIdle /\ PageIdle /\ NearbyIdle

NextPage ==
  \/ \E q \in QueryStrings : SearchEffect(q)
  \/ \E i \in 1..Len(requests), ok \in BOOLEAN : RequestSettles(i, ok)

SpecPage == InitPage /\ [][NextPage]_vars

\* The toggles of the nearby events of two occurrences.
InitNearby == SearchIdle /\ OptionsIdle /\ PageUnused /\ NearbyIdle

NextNearby ==
  \/ \E k \in OccKeys : toggleOtherPopular(k)
  \/ Commit
  \/ \E i \in 1..Len(nearbyRequests) : NearbySettles(i)

SpecNearby == InitNearby /\ [][NextNearby]_vars

(***************************************************************************)
(* Properties of the answered request.                                     *)
(***************************************************************************)
NormalDone == pc = "done" /\ branch = "normal"
SingleDone == pc = "done" /\ branch = "single"

\* the members of the i-th returned occurrence
Members(i) == resp.occurrences[i].events

Returned == 1..Len(resp.occurrences)

\* the day bound the builder ran with, from the `days` parameter
BuilderDayBound == Max(0, Max(1, req.days - 1) - 1)

\* two events of allEvents are members of one returned occurrence
Together(a, b) == \E i \in Returned : {a, b} \subseteq Range(Members(i))

Distance(a, b) ==
  haversineMiles(a.venue.latitude, a.venue.longitude,
                 b.venue.latitude, b.venue.longitude)

\* the handler returns the builder's clusters, in the builder's order
ReturnsBuilt ==
  /\ Len(resp.occurrences) = Len(built)
  /\ \A i \in 1..Len(built) : Members(i) = built[i].val

\* C1: every occurrence that the normal-mode handler returns from the overlap
\* builder has members of at least two distinct pickKeys.
C1_CoverageAtLeastTwo ==
  NormalDone =>
    /\ ReturnsBuilt
    /\ \A i \in Returned :
         Cardinality({pickKey(Members(i)[k].pick) : k \in 1..Len(Members(i))}) >= 2

\* an occurrence is returned while a placed, dated event found nobody of
\* another pick and is in no occurrence
C1_Witness ==
  /\ NormalDone
  /\ Len(resp.occurrences) >= 1
  /\ \E n \in 1..Len(allEvents) :
       /\ hasCoords(allEvents[n]) /\ isYMD(allEvents[n].localDate)
       /\ \A i \in Returned : allEvents[n] \notin Range(Members(i))

\* C2: every member of a returned overlap occurrence lies within radiusMiles of
\* the seed the cluster grew from and 0 to maxDiffDays days after it, maxDiffDays
\* being the builder's day bound; the occurrence's anchor is the seed's location.
C2_MembersNearSeed ==
  NormalDone =>
    /\ ReturnsBuilt
    /\ \A i \in 1..Len(built) :
         LET a == allEvents[built[i].seed]
         IN  /\ hasCoords(a)
             /\ resp.occurrences[i].meta.anchor
                  = [lat |-> a.venue.latitude, lon |-> a.venue.longitude]
             /\ \A k \in 1..Len(built[i].val) :
                  LET e == built[i].val[k]
                  IN  /\ hasCoords(e)
                      /\ Distance(a, e) <= req.radiusMiles * 1000
                      /\ diffDaysSigned(a.localDate, e.localDate) \in 0..BuilderDayBound

\* a member at another venue inside the radius, a day after the seed
C2_Witness ==
  /\ NormalDone
  /\ \E i \in 1..Len(built) : \E k \in 1..Len(built[i].val) :
       /\ Distance(allEvents[built[i].seed], built[i].val[k]) > 0
       /\ diffDaysSigned(allEvents[built[i].seed].localDate,
                         built[i].val[k].localDate) = 1

\* C3: with maxDiffDays = max(0, days - 1), two placed events of different
\* picks within the radius and 0 to days - 1 days apart are members of one
\* returned occurrence.
C3_JoinsWithinUserWindow ==
  NormalDone =>
    \A m, n \in 1..Len(allEvents) :
      LET a == allEvents[m]
          b == allEvents[n]
      IN  ( /\ pickKey(a.pick) # pickKey(b.pick)
            /\ hasCoords(a) /\ hasCoords(b)
            /\ isYMD(a.localDate) /\ isYMD(b.localDate)
            /\ diffDaysSigned(a.localDate, b.localDate) \in 0..Max(0, req.days - 1)
            /\ Distance(a, b) <= req.radiusMiles * 1000 )
          => Together(a, b)

\* p1 and p2 are entity picks with one non-empty attraction id
SameEntity ==
  /\ isEntityPick(picks.p1) /\ isEntityPick(picks.p2)
  /\ picks.p1.attractionId # ""
  /\ picks.p1.attractionId = picks.p2.attractionId

\* C4: when p1 and p2 are entity picks of one attraction id, the answer is
\* exactly one occurrence, of mode ENTITY_ONLY, holding all the ticket-linked
\* events fetched.
C4_EntityOnly ==
  (pc = "done" /\ SameEntity) =>
    /\ resp.count = 1
    /\ Len(resp.occurrences) = 1
    /\ resp.occurrences[1].meta.mode = "ENTITY_ONLY"
    /\ Range(Members(1)) = Range(allEvents)

\* the events of allEvents fetched for the pick of the slot, in their order
RECURSIVE OfSlot(_, _)
OfSlot(events, slot) ==
  IF events = <<>> THEN <<>>
  ELSE IF Head(events).pick.slot = slot
       THEN <<Head(events)>> \o OfSlot(Tail(events), slot)
       ELSE OfSlot(Tail(events), slot)

\* the answer GET gives to the same picks and the same fetched events under
\* another `days` and `radiusMiles`
Rerun(days, radiusMiles) ==
  IF singleMode(req.p1, req.p2, picks.p1, picks.p2)
  THEN SingleModeBuild(allEvents).resp
  ELSE NormalModeBuild([picks.p1 EXCEPT !.slot = "p1"], [picks.p2 EXCEPT !.slot = "p2"],
                       OfSlot(allEvents, "p1"), OfSlot(allEvents, "p2"),
                       OfSlot(allEvents, "p3"),
                       radiusMiles, days).resp

\* C5: when p1 and p2 are entity picks of one attraction id, the occurrences
\* returned are those returned for the same picks and events under every other
\* value of `days` and `radiusMiles`.
C5_DaysAndRadiusIgnored ==
  (pc = "done" /\ SameEntity) =>
    \A d \in 1..MaxDays, r \in Radii :
      Rerun(d, r).occurrences = resp.occurrences

\* two differently written picks of one attraction, events at two venues
C5_Witness ==
  /\ pc = "done" /\ SameEntity
  /\ req.p1 # req.p2
  /\ Len(resp.occurrences) = 2
  /\ Distance(Members(1)[1], Members(2)[1]) > 10 * 1000

\* the same provider event fetched for p1 (at m) and for p2 (at n)
CoBilled(m, n) ==
  /\ allEvents[m].id # "" /\ allEvents[m].id = allEvents[n].id
  /\ allEvents[m].pick.slot = "p1" /\ allEvents[n].pick.slot = "p2"

C7_Ranked ==
  NormalDone =>
    /\ ReturnsBuilt
    /\ \A i, j \in Returned :
         i < j =>
           LET A == Members(i)
               B == Members(j)
               aCoverage == occurrencePickCoverageCount(A)
               bCoverage == occurrencePickCoverageCount(B)
           IN  \/ aCoverage > bCoverage
               \/ aCoverage = bCoverage /\ Len(A) > Len(B)
               \/ /\ aCoverage = bCoverage /\ Len(A) = Len(B)
                  /\ ~DateLess(occurrenceEarliestDate(B), occurrenceEarliestDate(A))

\* an occurrence of higher coverage precedes one of the same size that starts
\* earlier
C7_Witness ==
  /\ NormalDone
  /\ Len(resp.occurrences) >= 2
  /\ occurrencePickCoverageCount(Members(1)) > occurrencePickCoverageCount(Members(2))
  /\ Len(Members(1)) = Len(Members(2))
  /\ DateLess(occurrenceEarliestDate(Members(2)), occurrenceEarliestDate(Members(1)))

KeySet(events) == {dedupeKeyForEvent(events[k]) : k \in 1..Len(events)}

\* C8: no two returned occurrences have the same set of member identity keys.
C8_DistinctKeySets ==
  NormalDone =>
    /\ ReturnsBuilt
    /\ \A i, j \in Returned : i # j => KeySet(Members(i)) # KeySet(Members(j))

\* two events of different picks at one venue on one date: each seeds a cluster
\* of the same two members, and one occurrence is returned
C8_Witness ==
  /\ NormalDone
  /\ Len(allEvents) = 2
  /\ hasCoords(allEvents[1]) /\ hasCoords(allEvents[2])
  /\ isYMD(allEvents[1].localDate)
  /\ allEvents[1].localDate = allEvents[2].localDate
  /\ Distance(allEvents[1], allEvents[2]) = 0
  /\ Len(resp.occurrences) = 1
  /\ Members(1) = allEvents

\* C9: the members of a returned overlap occurrence fall on at most `days`
\* distinct dates, and any two of them are at most maxDiffDays days apart,
\* maxDiffDays being the builder's day bound (itself at most days - 1).
C9_DatesWithinWindow ==
  NormalDone =>
    /\ ReturnsBuilt
    /\ \A i \in Returned :
         /\ Cardinality({Members(i)[k].localDate : k \in 1..Len(Members(i))}) <= req.days
         /\ \A k, l \in 1..Len(Members(i)) :
              LET d == diffDaysSigned(Members(i)[k].localDate, Members(i)[l].localDate)
              IN  d # NullDays /\ d <= BuilderDayBound /\ d <= Max(0, req.days - 1)

\* an occurrence that spans the whole of the builder's window
C9_Witness ==
  /\ NormalDone
  /\ BuilderDayBound = 1
  /\ \E i \in Returned : \E k, l \in 1..Len(Members(i)) :
       diffDaysSigned(Members(i)[k].localDate, Members(i)[l].localDate) = 1

\* C10: an event without coordinates neither seeds nor joins an overlap
\* occurrence; it is listed in the fallback schedule of its pick when there is
\* no overlap, and, when dated, it is a member of a single-pick location run.
C10_CoordlessEvents ==
  /\ NormalDone =>
       /\ ReturnsBuilt
       /\ \A i \in 1..Len(built) :
            /\ hasCoords(allEvents[built[i].seed])
            /\ \A k \in 1..Len(Members(i)) : hasCoords(Members(i)[k])
       /\ Len(resp.occurrences) = 0 =>
            /\ Len(resp.fallback) = 1
            /\ \A n \in 1..Len(allEvents) :
                 ~hasCoords(allEvents[n]) =>
                   /\ allEvents[n].pick.slot = "p1" =>
                        allEvents[n] \in Range(resp.fallback[1].schedules[1].events)
                   /\ allEvents[n].pick.slot = "p2" =>
                        allEvents[n] \in Range(resp.fallback[1].schedules[2].events)
  /\ SingleDone =>
       \A n \in 1..Len(allEvents) :
         (~hasCoords(allEvents[n]) /\ isYMD(allEvents[n].localDate)) =>
           \E i \in Returned : allEvents[n] \in Range(Members(i))

\* an event without coordinates and a placed event of the other pick on the
\* same date: no occurrence, and the fallback schedule lists the former
C10_Witness ==
  /\ NormalDone
  /\ Len(resp.occurrences) = 0
  /\ \E m, n \in 1..Len(allEvents) :
       /\ ~hasCoords(allEvents[m]) /\ hasCoords(allEvents[n])
       /\ allEvents[m].pick.slot = "p1" /\ allEvents[n].pick.slot = "p2"
       /\ allEvents[m].localDate = allEvents[n].localDate
       /\ allEvents[m] \in Range(resp.fallback[1].schedules[1].events)

\* the members of the returned occurrences from the i-th on, one after another
RECURSIVE MembersFrom(_)
MembersFrom(i) ==
  IF i > Len(resp.occurrences) THEN <<>> ELSE Members(i) \o MembersFrom(i + 1)

\* how often an event stands in a list
Count(e, events) == Cardinality({k \in 1..Len(events) : events[k] = e})

\* the time of day that orders events of one date; an absent time is midnight
TimeRank(e) == StrRank(IF e.localTime = "" THEN "00:00:00" ELSE e.localTime)

\* C11: in single mode the occurrences, one after another, are the dated events
\* fetched for the pick in (date, time) order; the events of one occurrence
\* share one location key, adjacent occurrences have different location keys,
\* and a run of one event is an occurrence.
C11_MaximalLocationRuns ==
  SingleDone =>
    LET all == MembersFrom(1)
    IN  /\ \A n \in 1..Len(allEvents) :
             Count(allEvents[n], all)
               = IF isYMD(allEvents[n].localDate) THEN Count(allEvents[n], allEvents) ELSE 0
        /\ Len(all) = Cardinality({n \in 1..Len(allEvents) : isYMD(allEvents[n].localDate)})
        /\ \A k, l \in 1..Len(all) :
             k < l =>
               \/ DateLess(all[k].localDate, all[l].localDate)
               \/ /\ all[k].localDate = all[l].localDate
                  /\ TimeRank(all[k]) <= TimeRank(all[l])
        /\ \A i \in Returned :
             /\ Len(Members(i)) >= 1
             /\ \A k \in 1..Len(Members(i)) :
                  locationKeyForEvent(Members(i)[k]) = locationKeyForEvent(Members(i)[1])
             /\ resp.occurrences[i].meta.locKey = locationKeyForEvent(Members(i)[1])
             /\ i > 1 => locationKeyForEvent(Members(i)[1])
                           # locationKeyForEvent(Members(i - 1)[1])

\* two events at one venue, then one at another venue: a run of two and a run
\* of one
C11_Witness ==
  /\ SingleDone
  /\ Len(resp.occurrences) = 2
  /\ Len(Members(1)) = 2
  /\ Len(Members(2)) = 1
  /\ DateLess(Members(1)[1].localDate, Members(1)[2].localDate)

\* C12: in single mode the events are ordered by date, then by time of day
\* ascending, and an event without a time of day stands after every timed event
\* of its date.
C12_UntimedLast ==
  SingleDone =>
    LET all == MembersFrom(1)
    IN  \A k, l \in 1..Len(all) :
          k < l =>
            \/ DateLess(all[k].localDate, all[l].localDate)
            \/ /\ all[k].localDate = all[l].localDate
               /\ all[k].localTime # ""
               /\ all[l].localTime = "" \/ StrRank(all[k].localTime) <= StrRank(all[l].localTime)
            \/ /\ all[k].localDate = all[l].localDate
               /\ all[k].localTime = "" /\ all[l].localTime = ""

\* the one parameter of p1 / p2 that is filled
FilledRaw == IF req.p1 # <<>> THEN req.p1 ELSE req.p2

ExactlyOneFilled == (req.p1 = <<>>) # (req.p2 = <<>>)

\* C13: when exactly one of p1 / p2 is filled and it parses to a pick, the
\* handler takes the single mode for it: every event used is tagged with that
\* pick, the occurrences are location runs, no fallback or closest pair is
\* returned, and the occurrences are the same under every radiusMiles and days.
\* A filled parameter that does not parse ends the request with no occurrence.
C13_OnePickIsSingleMode ==
  (pc = "done" /\ ExactlyOneFilled) =>
    IF parsePickOrRaw(FilledRaw) = NullPick
    THEN branch = "none" /\ resp.count = 0 /\ resp.fallback = <<>>
    ELSE /\ branch = "single"
         /\ [picks.p1 EXCEPT !.attractionId = ""] = [picks.p2 EXCEPT !.attractionId = ""]
         /\ \A n \in 1..Len(allEvents) :
              allEvents[n].pick \in {ensureAttractionId(parsePickOrRaw(FilledRaw), f) :
                                       f \in {"", "K1"}}
         /\ resp.fallback = <<>> /\ resp.closest = <<>>
         /\ resp.count = Len(resp.occurrences)
         /\ \A i \in Returned :
              /\ resp.occurrences[i].meta.mode = "SINGLE_PICK_LOCATION_RUNS"
              /\ \A k \in 1..Len(Members(i)) :
                   locationKeyForEvent(Members(i)[k]) = locationKeyForEvent(Members(i)[1])
         /\ \A d \in 1..MaxDays, r \in Radii :
              Rerun(d, r).occurrences = resp.occurrences

\* only p2 is filled, with a genre: two runs at venues farther apart than the
\* smaller radius
C13_Witness ==
  /\ pc = "done"
  /\ req.p1 = <<>> /\ req.p2 = GenreRock
  /\ req.radiusMiles = 10
  /\ Len(resp.occurrences) = 2
  /\ Distance(Members(1)[1], Members(2)[1]) > 10 * 1000

\* the branch that p1 and p2 alone call for: the raw parameters and the picks
\* as they stand when the mode is selected
BranchOfP1P2 ==
  IF parsePickOrRaw(IF req.p1 # <<>> THEN req.p1 ELSE req.p2) = NullPick
     \/ parsePickOrRaw(IF req.p2 # <<>> THEN req.p2 ELSE req.p1) = NullPick
  THEN "none"
  ELSE IF \/ ExactlyOneFilled
          \/ req.p1 = req.p2
          \/ SameEntity
       THEN "single"
       ELSE "normal"

\* C14: the branch taken is the one that p1 and p2 call for, with or without a
\* third pick; events are fetched for p3 only in the normal mode, where they
\* form a third pool.
C14_ThirdPickKeepsMode ==
  pc = "done" =>
    /\ branch = BranchOfP1P2
    /\ \A n \in 1..Len(allEvents) :
         /\ allEvents[n].pick.slot = "p3" => (branch = "normal" /\ req.p3 # <<>>)
         /\ branch = "single" => (picks.p3 = NullPick \/ allEvents[n].pick # picks.p3)
    /\ branch = "single" => resp = SingleModeBuild(allEvents).resp
    /\ branch = "none" => resp.count = 0

\* a third pick is given and p1, p2 are one attraction written in two ways: the
\* single mode, with events
C14_Witness ==
  /\ pc = "done"
  /\ req.p3 # <<>>
  /\ req.p1 # <<>> /\ req.p2 # <<>> /\ req.p1 # req.p2
  /\ branch = "single"
  /\ Len(allEvents) >= 1

(***************************************************************************)
(* C15: a fallback is returned only when the request ran in overlap mode,  *)
(* no occurrence was found, and both p1 and p2 are entity picks (team or   *)
(* artist).                                                                *)
(***************************************************************************)
C15_FallbackOnlyForEntityPicks ==
  (pc = "done" /\ resp.fallback # <<>>) =>
    /\ branch = "normal"
    /\ resp.count = 0
    /\ isEntityPick(picks.p1)
    /\ isEntityPick(picks.p2)

\* the answer carries a fallback
FallbackDone == NormalDone /\ resp.fallback # <<>>

\* the two schedules of the fallback
Schedule(n) == resp.fallback[1].schedules[n]

\* the day bound of the closest pair, from the `days` parameter as the user gave it
UserDayBound == Max(0, req.days - 1)

\* the pairs (i, j) of an event of p1's schedule and an event of p2's schedule
\* that have dates and coordinates and lie within the user's day bound
EligiblePairs ==
  {ij \in (1..Len(Schedule(1).events)) \X (1..Len(Schedule(2).events)) :
     LET ea == Schedule(1).events[ij[1]]
         eb == Schedule(2).events[ij[2]]
     IN  /\ isYMD(ea.localDate) /\ isYMD(eb.localDate)
         /\ hasCoords(ea) /\ hasCoords(eb)
         /\ diffDaysAbs(ea.localDate, eb.localDate) <= UserDayBound}

PairMiles(ij) == Distance(Schedule(1).events[ij[1]], Schedule(2).events[ij[2]])

PairDays(ij) ==
  diffDaysAbs(Schedule(1).events[ij[1]].localDate, Schedule(2).events[ij[2]].localDate)

\* the closest pair of the answer is the pair (i, j) of the schedules
IsClosest(ij) ==
  /\ resp.closest[1].miles = PairMiles(ij)
  /\ resp.closest[1].daysApart = PairDays(ij)
  /\ resp.closest[1].p1 =
       summarizeEventForClosest(Schedule(1).events[ij[1]], Schedule(1).label)
  /\ resp.closest[1].p2 =
       summarizeEventForClosest(Schedule(2).events[ij[2]], Schedule(2).label)

(***************************************************************************)
(* C16: the closest pair of a fallback is one event of p1's schedule and   *)
(* one of p2's schedule, both dated and placed, at most max(0, days - 1)   *)
(* days apart for the `days` value the user gave, and no such pair is      *)
(* nearer; it is absent exactly when there is no such pair.  Without a     *)
(* fallback there is no closest pair.                                      *)
(***************************************************************************)
C16_ClosestWithinUserDays ==
  /\ (pc = "done" /\ resp.fallback = <<>>) => resp.closest = <<>>
  /\ FallbackDone =>
       /\ (resp.closest = <<>>) <=> (EligiblePairs = {})
       /\ resp.closest # <<>> =>
            /\ resp.closest[1].withinDays = req.days
            /\ resp.closest[1].daysApart <= UserDayBound
            /\ \E ij \in EligiblePairs : IsClosest(ij)
            /\ \A ij \in EligiblePairs : resp.closest[1].miles <= PairMiles(ij)

\* a closest pair as far apart in days as the user allows, further than the
\* builder joins, in an answer whose events include an unplaced one
C16_Witness ==
  /\ FallbackDone /\ resp.closest # <<>>
  /\ resp.closest[1].daysApart = UserDayBound
  /\ resp.closest[1].daysApart > BuilderDayBound
  /\ \E n \in 1..Len(allEvents) : ~hasCoords(allEvents[n])

\* the earlier of two dates
EarlierDate(da, db) == IF DateLess(da, db) THEN da ELSE db

\* (miles, days apart, earlier date) of a closest pair as findClosestPairWithinDays returns it
ClosestRank(c) == <<c.miles, c.daysApart, EarlierDate(c.p1.date, c.p2.date)>>

\* (miles, days apart, earlier date) of the pair (i, j) of the schedules
PairRank(ij) ==
  <<PairMiles(ij), PairDays(ij),
    EarlierDate(Schedule(1).events[ij[1]].localDate, Schedule(2).events[ij[2]].localDate)>>

\* the lexicographic order of the ranks
RankLeq(r, q) ==
  \/ r[1] < q[1]
  \/ r[1] = q[1] /\ r[2] < q[2]
  \/ r[1] = q[1] /\ r[2] = q[2] /\ (r[3] = q[3] \/ DateLess(r[3], q[3]))

\* the schedule's events in the order f
Reordered(events, f) == [k \in 1..Len(events) |-> events[f[k]]]

\* the orders of a schedule's events
Orders(events) == {f \in [1..Len(events) -> 1..Len(events)] : \A a, b \in 1..Len(events) : f[a] = f[b] => a = b}

(***************************************************************************)
(* C17: the closest pair is least among the eligible pairs in the          *)
(* lexicographic order of (distance, days apart, earlier date of the       *)
(* pair), and the search returns a pair of the same rank in whatever order *)
(* the two schedules list their events.                                    *)
(***************************************************************************)
C17_LexicographicMinimum ==
  (FallbackDone /\ resp.closest # <<>>) =>
    /\ \E ij \in EligiblePairs : ClosestRank(resp.closest[1]) = PairRank(ij)
    /\ \A ij \in EligiblePairs : RankLeq(ClosestRank(resp.closest[1]), PairRank(ij))
    /\ \A f \in Orders(Schedule(1).events), g \in Orders(Schedule(2).events) :
         LET again == findClosestPairWithinDays(Reordered(Schedule(1).events, f),
                                                Reordered(Schedule(2).events, g),
                                                UserDayBound,
                                                Schedule(1).label, Schedule(2).label)
         IN  again # <<>> /\ ClosestRank(again[1]) = ClosestRank(resp.closest[1])

\* some eligible pair is as near as the closest pair but further apart in
\* days, and another ties it in distance and days and has a later date
C17_Witness ==
  /\ FallbackDone /\ resp.closest # <<>>
  /\ \E ij \in EligiblePairs :
       /\ PairMiles(ij) = resp.closest[1].miles
       /\ PairDays(ij) > resp.closest[1].daysApart
  /\ \E ij \in EligiblePairs :
       /\ PairMiles(ij) = resp.closest[1].miles
       /\ PairDays(ij) = resp.closest[1].daysApart
       /\ PairRank(ij) # ClosestRank(resp.closest[1])

\* the n-th schedule as the results page lists it
Listed(n) == FallbackScheduleEvents(Schedule(n).events)

\* the events the fetch loop kept for the pick of the n-th schedule
FetchedFor(n) == OfSlot(allEvents, IF n = 1 THEN "p1" ELSE "p2")

\* dated events are in the order of their dates and, on one date, timed events
\* in the order of their times
Chronological(events) ==
  \A i, j \in 1..Len(events) :
    (i < j /\ isYMD(events[i].localDate) /\ isYMD(events[j].localDate)) =>
      /\ ~DateLess(events[j].localDate, events[i].localDate)
      /\ (events[i].localDate = events[j].localDate
          /\ events[i].localTime # "" /\ events[j].localTime # "")
         => StrRank(events[i].localTime) <= StrRank(events[j].localTime)

Unlinked(e) == e.url \in {"", BlankUrl}

(***************************************************************************)
(* C19: an event without a ticket url, or with a blank one, is a member of *)
(* no returned occurrence in any branch and is in no fallback schedule,    *)
(* and the closest pair is a pair of events of the two schedules.          *)
(***************************************************************************)
C19_NoUnlinkedEvent ==
  pc = "done" =>
    /\ \A i \in Returned : \A k \in 1..Len(Members(i)) : ~Unlinked(Members(i)[k])
    /\ \A n \in 1..Len(allEvents) : ~Unlinked(allEvents[n])
    /\ resp.fallback # <<>> =>
         /\ \A n \in 1..2 : \A k \in 1..Len(Schedule(n).events) :
              ~Unlinked(Schedule(n).events[k])
         /\ resp.closest # <<>> =>
              \E i \in 1..Len(Schedule(1).events), j \in 1..Len(Schedule(2).events) :
                IsClosest(<<i, j>>)

\* the provider returned an event without a url and an event with a blank url
\* for picks that got a fallback with a closest pair
C19_Witness ==
  /\ pc = "done" /\ resp.fallback # <<>> /\ resp.closest # <<>>
  /\ \E q \in 1..Len(tmEvents) : \E k \in 1..Len(tmEvents[q]) : tmEvents[q][k].url = ""
  /\ \E q \in 1..Len(tmEvents) : \E k \in 1..Len(tmEvents[q]) : tmEvents[q][k].url = BlankUrl

\* no member of a returned occurrence lacks a YYYY-MM-DD local date
OccurrencesDated ==
  \A i \in Returned : \A k \in 1..Len(Members(i)) : isYMD(Members(i)[k].localDate)

\* no event of a fallback schedule lacks a YYYY-MM-DD local date
SchedulesDated ==
  resp.fallback # <<>> =>
    \A n \in 1..2 : \A k \in 1..Len(Schedule(n).events) :
      isYMD(Schedule(n).events[k].localDate)

(***************************************************************************)
(* C20: an event without a parseable local date is in no returned          *)
(* occurrence and in no fallback schedule, with or without a date range.   *)
(***************************************************************************)
C20_UndatedDropped == pc = "done" => (OccurrencesDated /\ SchedulesDated)

\* the positions of events that no earlier event shares its results-page key with
FirstPositions(events) ==
  {k \in 1..Len(events) : \A j \in 1..(k - 1) : DedupKey(events[j]) # DedupKey(events[k])}

\* the n-th of these positions
NthFirst(events, n) ==
  CHOOSE k \in FirstPositions(events) :
    Cardinality({j \in FirstPositions(events) : j <= k}) = n

\* dedupe keeps exactly the first event of every key, in the original order,
\* and leaves its own result as it is
DedupeFirstWins(events) ==
  /\ Len(dedupeEventsWithinOccurrence(events)) = Cardinality(FirstPositions(events))
  /\ \A n \in 1..Len(dedupeEventsWithinOccurrence(events)) :
       dedupeEventsWithinOccurrence(events)[n] = events[NthFirst(events, n)]
  /\ dedupeEventsWithinOccurrence(dedupeEventsWithinOccurrence(events))
       = dedupeEventsWithinOccurrence(events)

\* the member of a cluster is the first event of allEvents with its key
ClusterFirstWins ==
  \A i \in Returned : \A k \in 1..Len(Members(i)) :
    \A n \in 1..Len(allEvents) :
      (/\ dedupeKeyForEvent(allEvents[n]) = dedupeKeyForEvent(Members(i)[k])
       /\ \A j \in 1..(n - 1) :
            dedupeKeyForEvent(allEvents[j]) # dedupeKeyForEvent(Members(i)[k]))
      => Members(i)[k] = allEvents[n]

\* the results-page dedupe, on the events fetched and on the occurrences returned
DedupeFirstWinsEverywhere ==
  /\ DedupeFirstWins(allEvents)
  /\ \A q \in 1..Len(tmEvents) : DedupeFirstWins(tmEvents[q])
  /\ \A i \in Returned : DedupeFirstWins(Members(i))

(***************************************************************************)
(* C21: dedupe returns the first event of every identity key, in the       *)
(* original order, and dedupe(dedupe(events)) = dedupe(events); the member *)
(* an overlap cluster keeps under a key is likewise the first event with   *)
(* that key.                                                               *)
(***************************************************************************)
C21_FirstWins == NormalDone => (DedupeFirstWinsEverywhere /\ ClusterFirstWins)

Running == {b \in 1..Len(builds) : builds[b].status = "running"}

\* the GET that started the build b
StartedBy(b) == {g \in 1..Len(gets) : gets[g].header = "MISS" /\ gets[g].awaits = b}

(***************************************************************************)
(* C23: at most one buildCombinedOptions is in flight at any time; a GET   *)
(* that arrives while a build is in flight starts none and answers with    *)
(* the payload of that build; and no build starts while a cached value is  *)
(* unexpired.                                                              *)
(***************************************************************************)
C23_SingleFlight ==
  /\ Cardinality(Running) <= 1
  /\ Running = IF cache.inflight = 0 THEN {} ELSE {cache.inflight}
  /\ \A b \in 1..Len(builds) : Cardinality(StartedBy(b)) = 1
  /\ \A g \in 1..Len(gets) :
       gets[g].header = "HIT-INFLIGHT" =>
         /\ gets[g].awaits \in 1..Len(builds)
         /\ builds[gets[g].awaits].startedAt <= gets[g].now
         /\ builds[gets[g].awaits].status = "settled" =>
              gets[g].now <= builds[gets[g].awaits].settledAt
         /\ gets[g].pc = "done" => gets[g].payload = builds[gets[g].awaits].payload
  /\ \A g \in 1..Len(gets) : gets[g].header = "HIT" => gets[g].awaits = 0
  /\ \A b1, b2 \in 1..Len(builds) :
       (b1 < b2 /\ builds[b1].status = "settled" /\ builds[b1].outcome # "threw") =>
         builds[b2].startedAt >= builds[b1].settledAt + TtlTicks

\* a second GET joined the build in flight and was answered with its payload,
\* and a third GET was answered from the unexpired cache
C23_Witness ==
  /\ \E g \in 1..Len(gets) : gets[g].header = "HIT-INFLIGHT" /\ gets[g].pc = "done"
  /\ \E g \in 1..Len(gets) : gets[g].header = "HIT"
  /\ Len(builds) = 1

(***************************************************************************)
(* C24: a build during which the provider fetches fail, or which throws,   *)
(* leaves cache.value and cache.expiresAt as they were and resets          *)
(* inflight: the cached value is always the payload of a build whose       *)
(* fetches succeeded, and no GET is answered from the cache with the       *)
(* result of a failed build.                                               *)
(***************************************************************************)
C24_NotPoisoned ==
  /\ cache.value # <<>> =>
       \E b \in 1..Len(builds) :
         /\ builds[b].outcome = "ok"
         /\ cache.value[1] = builds[b].payload
         /\ cache.expiresAt = builds[b].settledAt + TtlTicks
  /\ \A b \in 1..Len(builds) : builds[b].status = "settled" => cache.inflight # b
  /\ \A g \in 1..Len(gets) : gets[g].header = "HIT" => gets[g].payload.artists

\* every /api/search request has settled
AllSettled == \A i \in 1..Len(requests) : requests[i].status # "pending"

\* the request for the query string of the page has been answered
LatestAnswered ==
  /\ requests[Len(requests)].qs = qsString
  /\ requests[Len(requests)].status = "ok"

\* no request wrote data or loading after a later request had been issued
SupersededNeverWrites ==
  \A i \in 1..Len(requests) :
    (requests[i].status # "pending" /\ requests[i].wrote) => requests[i].latest

(***************************************************************************)
(* C25: a /api/search request that was superseded by a change of the query *)
(* string never writes data or loading; once every request has settled,    *)
(* loading is false and data is the answer to the request for the query    *)
(* string of the page, if that request was answered.                       *)
(***************************************************************************)
C25_LatestRequestWins ==
  /\ SupersededNeverWrites
  /\ (requests # <<>> /\ AllSettled) =>
       /\ loading = FALSE
       /\ LatestAnswered => data = [qs |-> qsString, error |-> FALSE]

\* the requests issued for the occurrence key
RequestsFor(k) == {i \in 1..Len(nearbyRequests) : nearbyRequests[i].occKey = k}

(***************************************************************************)
(* C26: for every occurrence key at most one /api/nearby request is        *)
(* issued, whatever the toggles and whenever the renders commit, and the   *)
(* cache entry of a key, once loading or loaded, does not return to empty. *)
(***************************************************************************)
C26_OneNearbyRequestPerKey ==
  \A k \in OccKeys :
    /\ Cardinality(RequestsFor(k)) <= 1
    /\ RequestsFor(k) # {} => popularCacheByOcc[k] \in {"loading", "loaded"}

(***************************************************************************)
(* C27: when the answer of the overlap mode has no occurrence and names a  *)
(* closest pair, that pair is more than radiusMiles apart: no dated and    *)
(* placed pair of a p1 event and a p2 event lies within the user's day     *)
(* window and within the radius.                                           *)
(***************************************************************************)
C27_NoOverlapMeansFar ==
  (FallbackDone /\ resp.occurrences = <<>> /\ resp.closest # <<>>) =>
    /\ resp.closest[1].miles > req.radiusMiles * 1000
    /\ \A ij \in EligiblePairs : PairMiles(ij) > req.radiusMiles * 1000

\* the underlying events of a list: provider ids, or the composite of name,
\* date, time and venue of an event without id, whatever the slot
Underlying(events) == {dedupeKeyWithoutSlot(events[k]) : k \in 1..Len(events)}

(***************************************************************************)
(* C28: every returned occurrence of the overlap mode holds at least two   *)
(* different underlying events; an event and its copy fetched for another  *)
(* slot are no occurrence, also when p3 names the entity of p1 or p2.      *)
(***************************************************************************)
C28_TwoUnderlyingEvents ==
  NormalDone => \A i \in Returned : Cardinality(Underlying(Members(i))) >= 2

(***************************************************************************)
(* C29: the set of member keys of a returned occurrence of the overlap     *)
(* mode is no proper subset of the set of member keys of another returned  *)
(* occurrence.                                                             *)
(***************************************************************************)
C29_NoNestedOccurrence ==
  NormalDone =>
    \A i, j \in Returned :
      KeySet(Members(i)) \subseteq KeySet(Members(j)) =>
        KeySet(Members(i)) = KeySet(Members(j))

\* safeSpanDays and maxDiffDays of the builder for the request
SafeSpanDays == Max(1, effectiveDaysOf(req.days))

MaxDiffDays == Max(0, SafeSpanDays - 1)

\* the events that can seed a cluster
Seeds == {i \in 1..Len(allEvents) : Placed(Metas(allEvents)[i])}

\* the member list of the cluster grown from the seed allEvents[i]
Grown(i) ==
  MapValues(InnerLoop(Metas(allEvents), i, 1, req.radiusMiles, MaxDiffDays,
                      <<[key |-> Metas(allEvents)[i].key, val |-> allEvents[i]]>>))

\* every date of the fetched events is absent or a full year-month-day
WellFormedDates ==
  \A i \in 1..Len(allEvents) : allEvents[i].localDate = <<>> \/ isYMD(allEvents[i].localDate)

(***************************************************************************)
(* C30: with well-formed dates, every cluster of the overlap builder that  *)
(* covers two picks has at most safeSpanDays distinct dates and spans at   *)
(* most maxDiffDays days: the two caps reject nothing, the seed being the  *)
(* earliest member.                                                        *)
(***************************************************************************)
C30_CapsNeverReject ==
  (NormalDone /\ WellFormedDates) =>
    \A i \in Seeds :
      CoversTwoPicks(Grown(i)) =>
        /\ WithinCaps(Grown(i), SafeSpanDays, MaxDiffDays)
        /\ occurrenceEarliestDate(Grown(i)) = allEvents[i].localDate

\* a cluster of two picks over two dates, as far apart as the day test allows
C30_Witness ==
  /\ NormalDone /\ WellFormedDates
  /\ \E i \in Seeds :
       /\ CoversTwoPicks(Grown(i))
       /\ occurrenceDistinctDateCount(Grown(i)) = 2
       /\ occurrenceSpanDays(Grown(i)) = MaxDiffDays
       /\ \E j \in Returned : Members(j) = Grown(i)

====
